---------------------------- MODULE Spec2Model ----------------------------
(* A model of mudlark's text normaliser: the single-document pipeline      *)
(* simple_normalise with its string transforms, the standalone identifier   *)
(* anonymiser _anonymise_sentence, the typo corrector _correct_typos, and   *)
(* the batch identifier map built by normalise_csv.                         *)
(*                                                                          *)
(* Python strings are TLA+ strings (sequences of characters): Len, \o and   *)
(* SubSeq act on them, and a character is a string of length 1.             *)
EXTENDS Integers, Sequences, FiniteSets, TLC

VARIABLES
    pc,                    \* the position of the operation that is running
    sentence,              \* _anonymise_sentence: its argument
    anonymised_sentence,   \* _anonymise_sentence: its result
    corrections_dict,      \* the corrections table, <<key, value>> items in insertion order
    typo_text,             \* _correct_typos: its argument text
    sorted_dict,           \* _correct_typos: the items of sorted_dict not yet applied
    corrected_text,        \* _correct_typos: the text corrected so far
    applied,               \* _correct_typos: the keys applied so far, in order
    df,                    \* normalise_csv: the text column, one string per row
    row,                   \* normalise_csv: the number of rows scanned so far
    anonymised_terms,      \* normalise_csv: the set of detected terms
    terms_left,            \* normalise_csv: the terms the mapping loop has yet to visit
    anonymised_terms_map,  \* normalise_csv: the identifier map, a set of <<key, n>> (label Asset<n>)
    document,              \* simple_normalise: the text as it was passed
    text,                  \* simple_normalise: the text being normalised
    tokens,                \* simple_normalise: the tokens, once tokenised
    stages,                \* simple_normalise: the stages run so far, each with the text it received
    shape_text,            \* shape normalisation: the text as it was passed
    passes,                \* shape normalisation: the result of each pass made so far
    spaced,                \* _add_space_around_punctuation: its result
    word_in,               \* _singularise: its argument word
    word_out,              \* _singularise: its result
    verb_in,               \* _to_present_tense: its argument verb
    verb_out,              \* _to_present_tense: its result
    options,               \* normalise_csv: its arguments, with what they find on disk
    files,                 \* normalise_csv: the files written so far
    raised,                \* normalise_csv: the error raised, "none" so far
    handler,               \* process_column: the handler
    column,                \* process_column: the column as it was passed
    column_prefix,         \* process_column: the prefix of the unique strings
    rs,                    \* process_column: the random integers drawn
    mappings               \* process_column: the mapping built so far

vars == <<pc, sentence, anonymised_sentence, corrections_dict, typo_text,
          sorted_dict, corrected_text, applied, df, row, anonymised_terms,
          terms_left, anonymised_terms_map, document, text, tokens, stages,
          shape_text, passes, spaced, word_in, word_out, verb_in, verb_out,
          options, files, raised, handler, column, column_prefix, rs, mappings>>

anonVars == <<sentence, anonymised_sentence>>
typoVars == <<typo_text, sorted_dict, corrected_text, applied>>
batchVars == <<df, row, anonymised_terms, terms_left, anonymised_terms_map>>
pipeVars == <<document, text, tokens, stages>>
unitVars == <<shape_text, passes, spaced, word_in, word_out, verb_in, verb_out>>
csvVars == <<options, files, raised>>
columnVars == <<handler, column, column_prefix, rs, mappings>>
fileVars == <<csvVars, columnVars>>

-----------------------------------------------------------------------------
(* Characters and strings *)

LowerCase == "abcdefghijklmnopqrstuvwxyz"
UpperCase == "ABCDEFGHIJKLMNOPQRSTUVWXYZ"
Numerals == "0123456789"

Ch(s, i) == SubSeq(s, i, i)
CharsOf(s) == {Ch(s, i) : i \in 1..Len(s)}

Lowers == CharsOf(LowerCase)
Uppers == CharsOf(UpperCase)
\* [A-Za-z]
Letters == Lowers \cup Uppers
\* \d
Digits == CharsOf(Numerals)
\* \w
WordChars == Letters \cup Digits \cup {"_"}
\* \s
Spaces == {" ", "\t", "\n", "\r", "\f"}

Max(S) == CHOOSE x \in S : \A y \in S : y <= x
Min(S) == CHOOSE x \in S : \A y \in S : x <= y

\* All the strings over the characters A of length at most n.
RECURSIVE StringsUpTo(_, _)
StringsUpTo(A, n) ==
    IF n = 0 THEN {""}
    ELSE LET S == StringsUpTo(A, n - 1) IN S \cup {s \o c : s \in S, c \in A}

\* s[i:j] of Python with 0 <= i <= j <= len(s): the characters i+1 .. j.
Slice(s, i, j) == SubSeq(s, i + 1, j)

\* Whether the word character test differs on the two sides of position p,
\* the gap before character p (1 .. Len(s)+1): the regex \b.
WordAt(s, i) == i >= 1 /\ i <= Len(s) /\ Ch(s, i) \in WordChars
WordBoundary(s, p) == WordAt(s, p - 1) # WordAt(s, p)

-----------------------------------------------------------------------------
(* Regular expression pieces: from a set P of positions (the next character *)
(* to read), the positions a greedy-with-backtracking match can stop at.    *)

AllIn(s, p, q, C) == \A i \in p..(q - 1) : Ch(s, i) \in C
\* X* for a character class C
Star(s, P, C) == {q \in 1..(Len(s) + 1) : \E p \in P : p <= q /\ AllIn(s, p, q, C)}
\* X+
Plus(s, P, C) == {q \in 1..(Len(s) + 1) : \E p \in P : p < q /\ AllIn(s, p, q, C)}
\* X
One(s, P, C) == {p + 1 : p \in {q \in P : q <= Len(s) /\ Ch(s, q) \in C}}

-----------------------------------------------------------------------------
(* _anonymise_sentence: re.sub(pattern, "AssetID", sentence) *)

\* \d*[A-Za-z]+\d*[A-Za-z]*: the digits after the letters made optional
Alt1_digits_optional(s, p) ==
    Star(s, Star(s, Plus(s, Star(s, {p}, Digits), Letters), Digits), Letters)

\* \d*[A-Za-z]+\d+[A-Za-z]*
Alt1(s, p) == Star(s, Plus(s, Plus(s, Star(s, {p}, Digits), Letters), Digits), Letters)
\* [A-Za-z]*\d+[A-Za-z]+
Alt2(s, p) == Plus(s, Plus(s, Star(s, {p}, Letters), Digits), Letters)
\* [A-Za-z]*\d+[A-Za-z]*
Alt3(s, p) == Star(s, Plus(s, Star(s, {p}, Letters), Digits), Letters)
\* [A-Za-z]\d[A-Za-z]\d\d[A-Za-z]
Alt4(s, p) ==
    One(s, One(s, One(s, One(s, One(s, One(s, {p}, Letters), Digits), Letters),
                      Digits), Digits), Letters)

\* The alternatives of the pattern, in the order the regex tries them.
Alternatives(s, p) == <<Alt1(s, p), Alt2(s, p), Alt3(s, p), Alt4(s, p)>>

\* Where a match of \b(...|...|...|...)\b starting at p ends (the position
\* after its last character), or 0 when there is none: the first alternative
\* that reaches a word boundary, at its greediest such end.
PatternMatchEnd(s, p) ==
    LET alts == Alternatives(s, p)
        ends(k) == {e \in alts[k] : WordBoundary(s, e)}
        hit == {k \in 1..Len(alts) : ends(k) # {}}
    IN  IF ~WordBoundary(s, p) \/ hit = {} THEN 0 ELSE Max(ends(Min(hit)))

\* The pattern of the docstring alone, [A-Za-z]*\d+[A-Za-z]*, with no \b.
_anonymise_sentence_unanchored(s) ==
    LET sub[p \in 1..(Len(s) + 1)] ==
            IF p > Len(s) THEN ""
            ELSE LET e == IF Alt3(s, p) = {} THEN 0 ELSE Max(Alt3(s, p))
                 IN  IF e # 0 THEN "AssetID" \o sub[e] ELSE Ch(s, p) \o sub[p + 1]
    IN  sub[1]

\* re.sub scans left to right: a match is replaced and the scan goes on after
\* it, any other character is copied.
_anonymise_sentence(s) ==
    LET sub[p \in 1..(Len(s) + 1)] ==
            IF p > Len(s) THEN ""
            ELSE LET e == PatternMatchEnd(s, p)
                 IN  IF e # 0 THEN "AssetID" \o sub[e] ELSE Ch(s, p) \o sub[p + 1]
    IN  sub[1]


-----------------------------------------------------------------------------
(* get_anonymised_terms: set(re.findall(pattern_1, sentence)) *)

\* Where a match of pattern_1, \b[A-Z]+\s*-*\d+\b, starting at p ends, or 0.
Pattern1MatchEnd(s, p) ==
    LET ends == {e \in Plus(s, Star(s, Star(s, Plus(s, {p}, Uppers), Spaces), {"-"}), Digits) :
                    WordBoundary(s, e)}
    IN  IF ~WordBoundary(s, p) \/ ends = {} THEN 0 ELSE Max(ends)

\* re.findall scans left to right and goes on after each match; the matches
\* are collected in a set.
get_anonymised_terms(s) ==
    LET found[p \in 1..(Len(s) + 1)] ==
            IF p > Len(s) THEN {}
            ELSE LET e == Pattern1MatchEnd(s, p)
                 IN  IF e # 0 THEN {SubSeq(s, p, e - 1)} \cup found[e] ELSE found[p + 1]
    IN  found[1]

-----------------------------------------------------------------------------
(* _correct_typos *)

\* c.lower() for a character
LowerChar(c) ==
    IF c \in Uppers
    THEN Ch(LowerCase, CHOOSE i \in 1..Len(UpperCase) : Ch(UpperCase, i) = c)
    ELSE c

\* str.lower()
Lower(s) ==
    LET low[i \in 0..Len(s)] == IF i = 0 THEN "" ELSE low[i - 1] \o LowerChar(Ch(s, i))
    IN  low[Len(s)]

\* The items whose key has length n, in the order they have in items.
ItemsOfLen(items, n) ==
    LET has(i) == Len(i[1]) = n IN SelectSeq(items, has)

MaxKeyLen(items) == Max({0} \cup {Len(items[i][1]) : i \in 1..Len(items)})

\* sorted(items, key=len of the key): ascending.
sorted_items_ascending(items) ==
    LET upto[n \in 0..MaxKeyLen(items)] ==
            IF n = 0 THEN ItemsOfLen(items, 0)
            ELSE upto[n - 1] \o ItemsOfLen(items, n)
    IN  upto[MaxKeyLen(items)]

\* The items left in the order of insertion, not sorted at all.
sorted_items_as_inserted(items) == items

\* sorted(items, key=len of the key, reverse=True): by descending length of
\* the key, items of equal key length in their original order (the sort is
\* stable, also when reversed).
sorted_items(items) ==
    LET from[n \in 0..(MaxKeyLen(items) + 1)] ==
            IF n > MaxKeyLen(items) THEN <<>>
            ELSE from[n + 1] \o ItemsOfLen(items, n)
    IN  from[0]

\* The match of r"\b" + k + r"\b" at p with the case of the letters ignored.
KeyMatchesAt_any_case(s, p, k) ==
    /\ p + Len(k) - 1 <= Len(s)
    /\ Lower(SubSeq(s, p, p + Len(k) - 1)) = Lower(k)
    /\ WordBoundary(s, p)
    /\ WordBoundary(s, p + Len(k))

\* Whether r"\b" + k + r"\b" matches s at position p, for a key k of letters,
\* digits and spaces (no character special to the regex).
KeyMatchesAt(s, p, k) ==
    /\ p + Len(k) - 1 <= Len(s)
    /\ SubSeq(s, p, p + Len(k) - 1) = k
    /\ WordBoundary(s, p)
    /\ WordBoundary(s, p + Len(k))

\* re.sub(k, v, s) for the key as it stands, with no \b around it.
re_sub_unanchored(s, k, v) ==
    LET sub[p \in 1..(Len(s) + 1)] ==
            IF p > Len(s) THEN ""
            ELSE IF p + Len(k) - 1 <= Len(s) /\ SubSeq(s, p, p + Len(k) - 1) = k
                 THEN v \o sub[p + Len(k)]
                 ELSE Ch(s, p) \o sub[p + 1]
    IN  sub[1]

\* re.sub(r"\b" + k + r"\b", v, s), for a value v with no backslash: the
\* matches from left to right, not overlapping, each replaced by v.
re_sub_word(s, k, v) ==
    LET sub[p \in 1..(Len(s) + 1)] ==
            IF p > Len(s) THEN ""
            ELSE IF KeyMatchesAt(s, p, k)
                 THEN v \o sub[p + Len(k)]
                 ELSE Ch(s, p) \o sub[p + 1]
    IN  sub[1]

\* One pass of the loop with the key taken as written in the table.
correct_one_key_as_written(s, item) == re_sub_word(s, item[1], item[2])

\* One pass of the loop: the key is lowercased, the text is not.
correct_one(s, item) == re_sub_word(s, Lower(item[1]), item[2])

\* The whole of _correct_typos.
_correct_typos(s, items) ==
    LET srt == sorted_items(items)
        run[i \in 0..Len(srt)] == IF i = 0 THEN s ELSE correct_one(run[i - 1], srt[i])
    IN  run[Len(srt)]

-----------------------------------------------------------------------------
(* Inputs *)

\* The longest sentence over NarrowAlphabet, and over MixedAlphabet.
MaxSentenceLen == 6
MaxMixedLen == 3

NarrowAlphabet == {"a", "1", " ", "_"}
MixedAlphabet == {"a", "Z", "1", "2", " ", "-", "_", "/"}

Sentences ==
    StringsUpTo(NarrowAlphabet, MaxSentenceLen) \cup StringsUpTo(MixedAlphabet, MaxMixedLen)

\* The most rows of a dataset.
MaxRows == 2

\* The texts a row may hold: an identifier written plain, with a hyphen or
\* with a space, a text with no identifier, and rows with two identifiers.
IdentifierForms == {l \o sep \o "1" : l \in {"A", "B", "C"}, sep \in {"", "-", " "}}
RowTexts == IdentifierForms \cup {"pump", "A-1 B-1", "see B 1, A1"}

RECURSIVE SeqsUpTo(_, _)
SeqsUpTo(S, n) ==
    IF n = 0 THEN {<<>>}
    ELSE LET T == SeqsUpTo(S, n - 1) IN T \cup {Append(t, x) : t \in T, x \in S}

Datasets == SeqsUpTo(RowTexts, MaxRows)

\* The longest text given to _correct_typos, and the most items of a table.
MaxTypoLen == 4
MaxItems == 2

TypoAlphabet == {"a", "c", "C", " "}
TypoTexts == StringsUpTo(TypoAlphabet, MaxTypoLen)

\* The items a corrections table is made of: a word, a phrase that holds the
\* word (with a replacement free of it, and with one that holds it), a key
\* written in upper case, and a key whose replacement is another key.
CorrectionItems ==
    {<<"c", "Xy">>, <<"a c", "ac">>, <<"a c", "b c">>, <<"C", "x">>, <<"a", "c">>}

\* A dict: its keys are distinct. The order is the insertion order.
IsDict(items) == \A i, j \in 1..Len(items) : i # j => items[i][1] # items[j][1]
Tables == {t \in SeqsUpTo(CorrectionItems, MaxItems) : IsDict(t)}

\* The value of a variable of an operation that is not running.
Idle == "idle"

anonIdle == sentence = Idle /\ anonymised_sentence = Idle
typoIdle == typo_text = Idle /\ sorted_dict = Idle /\ corrected_text = Idle /\ applied = Idle
batchIdle ==
    /\ df = Idle /\ row = Idle /\ anonymised_terms = Idle
    /\ terms_left = Idle /\ anonymised_terms_map = Idle
pipeIdle == document = Idle /\ text = Idle /\ tokens = Idle /\ stages = Idle
shapeIdle == shape_text = Idle /\ passes = Idle /\ spaced = Idle
wordIdle == word_in = Idle /\ word_out = Idle /\ verb_in = Idle /\ verb_out = Idle
unitIdle == shapeIdle /\ wordIdle
csvIdle == options = Idle /\ files = Idle /\ raised = Idle
columnIdle ==
    handler = Idle /\ column = Idle /\ column_prefix = Idle /\ rs = Idle /\ mappings = Idle
fileIdle == csvIdle /\ columnIdle

-----------------------------------------------------------------------------
(* Standalone anonymisation: one call of _anonymise_sentence *)

InitAnonymise ==
    /\ pc = "_anonymise_sentence"
    /\ sentence \in Sentences
    /\ anonymised_sentence = Idle
    /\ corrections_dict = Idle
    /\ typoIdle /\ batchIdle /\ pipeIdle /\ unitIdle
    /\ fileIdle

AnonymiseSentence ==
    /\ pc = "_anonymise_sentence"
    /\ anonymised_sentence' = _anonymise_sentence(sentence)
    /\ pc' = "done"
    /\ UNCHANGED <<sentence, corrections_dict, typoVars, batchVars, pipeVars, unitVars, fileVars>>

NextAnonymise == AnonymiseSentence

SpecAnonymise == InitAnonymise /\ [][NextAnonymise]_vars

-----------------------------------------------------------------------------
(* What the claims about anonymisation speak of: the words of a text (its   *)
(* maximal runs of word characters) and the shape of a word.                *)

\* The text cut into its maximal runs of word characters and of other
\* characters, in order.
Segments(s) ==
    LET cut[i \in 0..Len(s)] ==
            IF i = 0 THEN <<>>
            ELSE IF i > 1 /\ (WordAt(s, i) <=> WordAt(s, i - 1))
                 THEN [cut[i - 1] EXCEPT ![Len(cut[i - 1])] = @ \o Ch(s, i)]
                 ELSE Append(cut[i - 1], Ch(s, i))
    IN  cut[Len(s)]

IsWord(seg) == seg # "" /\ Ch(seg, 1) \in WordChars

\* The classes of the characters of a word, each run of one class written once:
\* "L" for letters, "D" for digits, "X" for anything else.
ClassOf(c) == IF c \in Letters THEN "L" ELSE IF c \in Digits THEN "D" ELSE "X"
Classes(w) ==
    LET cl[i \in 0..Len(w)] == IF i = 0 THEN "" ELSE cl[i - 1] \o ClassOf(Ch(w, i))
    IN  cl[Len(w)]
Runs(w) ==
    LET k == Classes(w)
        r[i \in 0..Len(k)] ==
            IF i = 0 THEN ""
            ELSE IF i > 1 /\ Ch(k, i) = Ch(k, i - 1) THEN r[i - 1] ELSE r[i - 1] \o Ch(k, i)
    IN  r[Len(k)]

\* The four identifier shapes.
Shape1(w) == Runs(w) \in {"LD", "DLD", "LDL", "DLDL"}
Shape2(w) == Runs(w) \in {"DL", "LDL"}
Shape3(w) == Runs(w) \in {"D", "LD", "DL", "LDL"}
Shape4(w) == Classes(w) = "LDLDDL"
HasIdentifierShape(w) == Shape1(w) \/ Shape2(w) \/ Shape3(w) \/ Shape4(w)

\* The segments joined, each word of an identifier shape written as AssetID.
WordsReplaced(s) ==
    LET segs == Segments(s)
        join[i \in 0..Len(segs)] ==
            IF i = 0 THEN ""
            ELSE join[i - 1] \o
                 (IF IsWord(segs[i]) /\ HasIdentifierShape(segs[i]) THEN "AssetID" ELSE segs[i])
    IN  join[Len(segs)]

\* The words of s that out shows as AssetID, out being s with some of its
\* words replaced (no input word is AssetID itself).
ReplacedWords(s, out) ==
    LET segs == Segments(s)
        \* the characters of out used up by the first i segments
        used[i \in 0..Len(segs)] ==
            IF i = 0 THEN 0
            ELSE IF SubSeq(out, used[i - 1] + 1, used[i - 1] + Len(segs[i])) = segs[i]
                 THEN used[i - 1] + Len(segs[i])
                 ELSE used[i - 1] + Len("AssetID")
    IN  {segs[i] : i \in {j \in 1..Len(segs) :
            SubSeq(out, used[j - 1] + 1, used[j - 1] + Len(segs[j])) # segs[j]}}

\* C2: when _anonymise_sentence has returned, its result is the sentence with
\* every word (maximal run of word characters) that has one of the four
\* identifier shapes replaced by AssetID, and with every other word and every
\* other character as it was.
C2_AnonymiseWholeWords ==
    pc = "done" => anonymised_sentence = WordsReplaced(sentence)

\* A sentence with a word that is replaced and a word that is not.
C2_Witness ==
    /\ pc = "done"
    /\ \E i, j \in 1..Len(Segments(sentence)) :
        /\ IsWord(Segments(sentence)[i]) /\ HasIdentifierShape(Segments(sentence)[i])
        /\ IsWord(Segments(sentence)[j]) /\ ~HasIdentifierShape(Segments(sentence)[j])
    /\ anonymised_sentence # sentence

HasLetter(w) == \E i \in 1..Len(w) : Ch(w, i) \in Letters
HasDigit(w) == \E i \in 1..Len(w) : Ch(w, i) \in Digits

\* C3 as stated: every word replaced by AssetID has a letter and a digit.
C3_LetterAndDigit ==
    pc = "done" =>
        \A w \in ReplacedWords(sentence, anonymised_sentence) : HasLetter(w) /\ HasDigit(w)

\* C3, amended: every word replaced by AssetID has a digit (a word made only
\* of letters is never replaced), and a word made only of digits is replaced.
C3_DigitRequired ==
    pc = "done" =>
        /\ \A w \in ReplacedWords(sentence, anonymised_sentence) : HasDigit(w)
        /\ \A i \in 1..Len(Segments(sentence)) :
            LET w == Segments(sentence)[i]
            IN  IsWord(w) /\ Runs(w) = "D" =>
                    w \in ReplacedWords(sentence, anonymised_sentence)

\* A sentence with a word of letters only, left alone, and a bare number, replaced.
C3_Witness ==
    /\ pc = "done"
    /\ \E w \in ReplacedWords(sentence, anonymised_sentence) : ~HasLetter(w)
    /\ \E i \in 1..Len(Segments(sentence)) :
        /\ Runs(Segments(sentence)[i]) = "L"
        /\ Segments(sentence)[i] \notin ReplacedWords(sentence, anonymised_sentence)


-----------------------------------------------------------------------------
(* Typo correction: one call of _correct_typos, one key of sorted_dict at a *)
(* time. applied records each key as matched, its replacement and the text  *)
(* once it has been applied.                                                *)

InitTypos ==
    /\ pc = "_correct_typos"
    /\ typo_text \in TypoTexts
    /\ corrections_dict \in Tables
    /\ sorted_dict = <<>>
    /\ corrected_text = ""
    /\ applied = <<>>
    /\ anonIdle /\ batchIdle /\ pipeIdle /\ unitIdle
    /\ fileIdle

\* corrected_text = text; sorted_dict = dict(sorted(...))
SortCorrections ==
    /\ pc = "_correct_typos"
    /\ corrected_text' = typo_text
    /\ sorted_dict' = sorted_items(corrections_dict)
    /\ pc' = "correct"
    /\ UNCHANGED <<typo_text, applied, corrections_dict, anonVars, batchVars, pipeVars, unitVars, fileVars>>

\* for incorrect, corrected in sorted_dict.items(): one key
ApplyCorrection ==
    /\ pc = "correct"
    /\ sorted_dict # <<>>
    /\ corrected_text' = correct_one(corrected_text, Head(sorted_dict))
    /\ applied' = Append(applied, [key |-> Lower(Head(sorted_dict)[1]),
                                   value |-> Head(sorted_dict)[2],
                                   after |-> corrected_text'])
    /\ sorted_dict' = Tail(sorted_dict)
    /\ UNCHANGED <<pc, typo_text, corrections_dict, anonVars, batchVars, pipeVars, unitVars, fileVars>>

\* return corrected_text
ReturnCorrected ==
    /\ pc = "correct"
    /\ sorted_dict = <<>>
    /\ pc' = "done"
    /\ UNCHANGED <<typo_text, sorted_dict, corrected_text, applied>>
    /\ UNCHANGED <<corrections_dict, anonVars, batchVars, pipeVars, unitVars, fileVars>>

NextTypos == SortCorrections \/ ApplyCorrection \/ ReturnCorrected

SpecTypos == InitTypos /\ [][NextTypos]_vars

-----------------------------------------------------------------------------
(* Batch mode: normalise_csv with anonymise_text set, up to the identifier  *)
(* map. The first loop scans the rows in sequence, the second visits the    *)
(* detected terms in the iteration order of a Python set of strings, which  *)
(* follows the strings' hashes: any order.                                  *)

\* str.replace(old, new) for single characters old.
Replace(s, old, new) ==
    LET r[i \in 0..Len(s)] ==
            IF i = 0 THEN ""
            ELSE r[i - 1] \o (IF Ch(s, i) = old THEN new ELSE Ch(s, i))
    IN  r[Len(s)]

\* term.replace(" ", "") alone.
term_normed_spaces_only(term) == Replace(term, " ", "")

\* term.replace(" ", "").replace("-", "")
term_normed(term) == Replace(Replace(term, " ", ""), "-", "")

\* d[k] = v on a dict
Put(d, k, v) == [x \in DOMAIN d \cup {k} |-> IF x = k THEN v ELSE d[x]]

\* f"Asset{n}"
AssetLabel(n) == "Asset" \o ToString(n)

\* The body of the mapping loop with its first test dropped: the key is
\* labelled anew at every term.
map_term_relabelling(map, term) ==
    LET key == term_normed(term)
        m1 == Put(map, key, AssetLabel(Cardinality(DOMAIN map) + 1))
    IN  Put(m1, term, m1[key])

\* The body of the mapping loop with a counter that never moves: every key
\* is labelled Asset1.
map_term_unnumbered(map, term) ==
    LET key == term_normed(term)
        m1 == IF key \notin DOMAIN map THEN Put(map, key, AssetLabel(1)) ELSE map
    IN  Put(m1, term, m1[key])

\* The body of the mapping loop for one term.
map_term(map, term) ==
    LET key == term_normed(term)
        m1 == IF key \notin DOMAIN map
              THEN Put(map, key, AssetLabel(Cardinality(DOMAIN map) + 1))
              ELSE map
    IN  IF key \in DOMAIN m1 THEN Put(m1, term, m1[key]) ELSE m1

InitBatch ==
    /\ pc = "scan"
    /\ df \in Datasets
    /\ row = 0
    /\ anonymised_terms = {}
    /\ terms_left = {}
    /\ anonymised_terms_map = <<>>
    /\ corrections_dict = Idle
    /\ anonIdle /\ typoIdle /\ pipeIdle /\ unitIdle
    /\ fileIdle

\* for i, _ in df.iterrows(): the terms of the next row join the set
ScanRow ==
    /\ pc = "scan"
    /\ row < Len(df)
    /\ row' = row + 1
    /\ anonymised_terms' = anonymised_terms \cup get_anonymised_terms(df[row + 1])
    /\ UNCHANGED <<pc, df, terms_left, anonymised_terms_map>>
    /\ UNCHANGED <<corrections_dict, anonVars, typoVars, pipeVars, unitVars, fileVars>>

\* the first loop ends, the second starts over the set
StartMapping ==
    /\ pc = "scan"
    /\ row = Len(df)
    /\ pc' = "map"
    /\ terms_left' = anonymised_terms
    /\ UNCHANGED <<df, row, anonymised_terms, anonymised_terms_map>>
    /\ UNCHANGED <<corrections_dict, anonVars, typoVars, pipeVars, unitVars, fileVars>>

\* for term in anonymised_terms: one term, whichever the set yields next
MapTerm ==
    /\ pc = "map"
    /\ \E term \in terms_left :
        /\ anonymised_terms_map' = map_term(anonymised_terms_map, term)
        /\ terms_left' = terms_left \ {term}
    /\ UNCHANGED <<pc, df, row, anonymised_terms>>
    /\ UNCHANGED <<corrections_dict, anonVars, typoVars, pipeVars, unitVars, fileVars>>

\* the second loop ends: the map is built
EndMapping ==
    /\ pc = "map"
    /\ terms_left = {}
    /\ pc' = "mapped"
    /\ UNCHANGED <<df, row, anonymised_terms, terms_left, anonymised_terms_map>>
    /\ UNCHANGED <<corrections_dict, anonVars, typoVars, pipeVars, unitVars, fileVars>>

NextBatch == ScanRow \/ StartMapping \/ MapTerm \/ EndMapping

SpecBatch == InitBatch /\ [][NextBatch]_vars


-----------------------------------------------------------------------------
(* What the claims about the identifier map speak of *)

\* A surface term with its spaces and hyphens removed.
StripSpacesAndHyphens(t) ==
    LET keep[i \in 0..Len(t)] ==
            IF i = 0 THEN ""
            ELSE IF Ch(t, i) \in {" ", "-"} THEN keep[i - 1] ELSE keep[i - 1] \o Ch(t, i)
    IN  keep[Len(t)]

\* The matches of pattern_1 in a text, in the order re.findall yields them.
TermsInOrder(s) ==
    LET found[p \in 1..(Len(s) + 1)] ==
            IF p > Len(s) THEN <<>>
            ELSE LET e == Pattern1MatchEnd(s, p)
                 IN  IF e # 0 THEN <<SubSeq(s, p, e - 1)>> \o found[e] ELSE found[p + 1]
    IN  found[1]

\* The distinct keys of a dataset in the order they are first met, scanning
\* the rows in sequence and each row from left to right.
FirstSeenKeys(d) ==
    LET all[i \in 0..Len(d)] == IF i = 0 THEN <<>> ELSE all[i - 1] \o TermsInOrder(d[i])
        terms == all[Len(d)]
        keys[i \in 0..Len(terms)] ==
            IF i = 0 THEN <<>>
            ELSE LET k == StripSpacesAndHyphens(terms[i])
                 IN  IF \E j \in 1..Len(keys[i - 1]) : keys[i - 1][j] = k
                     THEN keys[i - 1] ELSE Append(keys[i - 1], k)
    IN  keys[Len(terms)]

\* The label the built map gives a detected term.
LabelOf(t) == anonymised_terms_map[t]

\* C4: once the map is built, any two detected terms that are identical after
\* removing spaces and hyphens have the identical label, whatever the order
\* the terms were visited in.
C4_SameKeySameLabel ==
    pc = "mapped" =>
        \A t1, t2 \in anonymised_terms :
            StripSpacesAndHyphens(t1) = StripSpacesAndHyphens(t2) =>
                /\ t1 \in DOMAIN anonymised_terms_map
                /\ t2 \in DOMAIN anonymised_terms_map
                /\ LabelOf(t1) = LabelOf(t2)

\* A built map with two different surface forms of one key.
C4_Witness ==
    /\ pc = "mapped"
    /\ \E t1, t2 \in anonymised_terms :
        /\ t1 # t2
        /\ StripSpacesAndHyphens(t1) = StripSpacesAndHyphens(t2)
        /\ LabelOf(t1) = LabelOf(t2)

\* C5: once the map is built, the i-th distinct key met in the dataset, rows
\* in sequence, has the label Asset<i>.
C5_FirstSeenOrder ==
    pc = "mapped" =>
        \A i \in 1..Len(FirstSeenKeys(df)) :
            /\ FirstSeenKeys(df)[i] \in DOMAIN anonymised_terms_map
            /\ anonymised_terms_map[FirstSeenKeys(df)[i]] = AssetLabel(i)

\* C6: once the map is built for a dataset with K distinct keys, the labels
\* of the detected terms are exactly Asset1 .. AssetK.
C6_LabelsOneToK ==
    pc = "mapped" =>
        {LabelOf(t) : t \in anonymised_terms} =
            {AssetLabel(i) : i \in 1..Cardinality({StripSpacesAndHyphens(t) : t \in anonymised_terms})}

\* C7: while the map is being built, every step keeps every entry of the map
\* with its label.
C7_MapOnlyGrows ==
    [][\A k \in DOMAIN anonymised_terms_map :
            /\ k \in DOMAIN anonymised_terms_map'
            /\ anonymised_terms_map'[k] = anonymised_terms_map[k]]_vars

\* The mapping loop has visited two surface forms of one key and has terms
\* yet to visit.
C7_Witness ==
    /\ pc = "map"
    /\ terms_left # {}
    /\ \E t1, t2 \in anonymised_terms \ terms_left :
        /\ t1 # t2
        /\ term_normed(t1) = term_normed(t2)
        /\ {t1, t2, term_normed(t1)} \subseteq DOMAIN anonymised_terms_map


-----------------------------------------------------------------------------
(* What the claims about typo correction speak of *)

\* v occurs in s.
Contains(s, v) ==
    \E p \in 1..(Len(s) + 1) :
        p + Len(v) - 1 <= Len(s) /\ SubSeq(s, p, p + Len(v) - 1) = v

\* The positions where k occurs in s as a whole word or phrase: not inside a
\* longer word, that is with no word character right before or right after it
\* (k starts and ends with a word character).
WholeWordPositions(s, k) ==
    {p \in 1..Len(s) :
        /\ p + Len(k) - 1 <= Len(s)
        /\ SubSeq(s, p, p + Len(k) - 1) = k
        /\ (p = 1 \/ Ch(s, p - 1) \notin WordChars)
        /\ (p + Len(k) - 1 = Len(s) \/ Ch(s, p + Len(k)) \notin WordChars)}
OccursAsWholeWord(s, k) == WholeWordPositions(s, k) # {}

\* The text the i-th key of the loop was applied to.
TextBefore(i) == IF i = 1 THEN typo_text ELSE applied[i - 1].after

\* In the finished call, the key applied i-th is a phrase that occurs in the
\* text, holds the shorter key applied j-th, and is the longest key to occur.
LongerKeyCase(i, j) ==
    /\ Len(applied[j].key) < Len(applied[i].key)
    /\ Contains(applied[i].key, applied[j].key)
    /\ OccursAsWholeWord(typo_text, applied[i].key)
    /\ \A m \in 1..Len(applied) :
        m # i /\ Len(applied[m].key) >= Len(applied[i].key) =>
            ~OccursAsWholeWord(typo_text, applied[m].key)

\* C8 as stated: when a longer key that holds a shorter key occurs in the
\* text, the longer key's replacement appears in the result.
C8_LongerKeyWins ==
    pc = "done" =>
        \A i, j \in 1..Len(applied) :
            LongerKeyCase(i, j) => Contains(corrected_text, applied[i].value)

\* C8, amended: the keys are applied in descending order of length, each key
\* of the table once; and when a longer key that holds a shorter key occurs in
\* the text, its replacement appears in the result provided no other key
\* occurs as a whole word in the text its substitution produced.
C8_LongestKeyFirst ==
    pc = "done" =>
        /\ Len(applied) = Len(corrections_dict)
        /\ \A i, j \in 1..Len(applied) :
            i < j => Len(applied[i].key) >= Len(applied[j].key)
        /\ \A i, j \in 1..Len(applied) :
            /\ LongerKeyCase(i, j)
            /\ \A m \in 1..Len(applied) :
                m # i => ~OccursAsWholeWord(applied[i].after, applied[m].key)
            => Contains(corrected_text, applied[i].value)

\* A finished call where the shorter key occurred in the text too, and the
\* phrase was corrected as a phrase.
C8_Witness ==
    /\ pc = "done"
    /\ \E i, j \in 1..Len(applied) :
        /\ LongerKeyCase(i, j)
        /\ OccursAsWholeWord(typo_text, applied[j].key)
        /\ \A m \in 1..Len(applied) :
            m # i => ~OccursAsWholeWord(applied[i].after, applied[m].key)
        /\ Contains(corrected_text, applied[i].value)
        /\ ~Contains(corrected_text, applied[j].value)

\* C9: a text in which no key occurs as a whole word or phrase is returned
\* unchanged, whatever occurs inside its longer words; and a table of one key
\* changes the length of the text by len(value) - len(key) for each whole-word
\* occurrence of the key, and by nothing else.
C9_WholeWordsOnly ==
    pc = "done" =>
        /\ (\A i \in 1..Len(applied) : ~OccursAsWholeWord(typo_text, applied[i].key))
            => corrected_text = typo_text
        /\ Len(applied) = 1 =>
            Len(corrected_text) =
                Len(typo_text) + Cardinality(WholeWordPositions(typo_text, applied[1].key))
                                    * (Len(applied[1].value) - Len(applied[1].key))

\* A finished call on a text that holds a key inside a longer word only.
C9_Witness ==
    /\ pc = "done"
    /\ \E i \in 1..Len(applied) :
        /\ Contains(typo_text, applied[i].key)
        /\ ~OccursAsWholeWord(typo_text, applied[i].key)
    /\ corrected_text = typo_text

\* C10 as stated: an occurrence of the key in any case is corrected (here for
\* a table of one key: its replacement appears in the result).
C10_CaseInsensitive ==
    pc = "done" =>
        (Len(applied) = 1 /\ OccursAsWholeWord(Lower(typo_text), applied[1].key)
            => Contains(corrected_text, applied[1].value))

\* C10, amended: each key is lowercased and matched against the text as the
\* text is written. A pass whose lowercased key does not occur in the text
\* leaves the text as it is, also when the key occurs in upper or mixed case;
\* a pass whose lowercased key occurs inserts the value as authored.
C10_LowercasedKeyCaseSensitive ==
    \A i \in 1..Len(applied) :
        /\ applied[i].key = Lower(applied[i].key)
        /\ ~OccursAsWholeWord(TextBefore(i), applied[i].key) =>
                applied[i].after = TextBefore(i)
        /\ OccursAsWholeWord(TextBefore(i), applied[i].key) =>
                Contains(applied[i].after, applied[i].value)

\* A finished call of one key on a text that holds the key in lower case,
\* replaced by a value with a capital, and in upper case, left as it was.
C10_Witness ==
    /\ pc = "done"
    /\ Len(applied) = 1
    /\ OccursAsWholeWord(typo_text, applied[1].key)
    /\ Cardinality(WholeWordPositions(Lower(typo_text), applied[1].key)) >
            Cardinality(WholeWordPositions(typo_text, applied[1].key))
    /\ applied[1].value # Lower(applied[1].value)
    /\ Contains(corrected_text, applied[1].value)
    /\ Cardinality(WholeWordPositions(Lower(corrected_text), applied[1].key)) = 
            Cardinality(WholeWordPositions(Lower(typo_text), applied[1].key)) 
                - Cardinality(WholeWordPositions(typo_text, applied[1].key))


-----------------------------------------------------------------------------
(* Shape normalisation: the steps 2 to 5 and 7 of simple_normalise *)

\* text.replace(",", " ")
_remove_commas(s) == Replace(s, ",", " ")

\* chars_to_keep, as a character class
chars_to_keep == {",", "&", ".", "#", "@", "/", "-"}

\* re.sub("[^a-zA-Z0-9 <chars_to_keep>]", " ", text)
_remove_undesirable_chars(s) ==
    LET keep == Letters \cup Digits \cup {" "} \cup chars_to_keep
        r[i \in 0..Len(s)] ==
            IF i = 0 THEN ""
            ELSE r[i - 1] \o (IF Ch(s, i) \in keep THEN Ch(s, i) ELSE " ")
    IN  r[Len(s)]

\* re.sub("([<chars_to_keep>])\1+", "\1", text): of a run of one of these
\* characters the first is kept.
_remove_duplicate_contiguous_chars(s) ==
    LET r[i \in 0..Len(s)] ==
            IF i = 0 THEN ""
            ELSE IF i > 1 /\ Ch(s, i) \in chars_to_keep /\ Ch(s, i) = Ch(s, i - 1)
                 THEN r[i - 1]
                 ELSE r[i - 1] \o Ch(s, i)
    IN  r[Len(s)]

\* The class of the first substitution of _add_space_around_punctuation:
\* the ASCII punctuation but the slash and the hyphen (and but the backquote,
\* which no string of this module can hold).
PunctuationMarks == CharsOf("!\"#$%&'()*+,.:;<=>?@[\\]^_{|}~")

\* re.sub("([<PunctuationMarks>])", " \1 ", text)
space_punctuation_marks(s) ==
    LET r[i \in 0..Len(s)] ==
            IF i = 0 THEN ""
            ELSE r[i - 1] \o (IF Ch(s, i) \in PunctuationMarks
                              THEN " " \o Ch(s, i) \o " " ELSE Ch(s, i))
    IN  r[Len(s)]

\* The first position from p on that holds no character of C.
SkipWhile(s, p, C) ==
    Min({q \in p..(Len(s) + 1) : q > Len(s) \/ Ch(s, q) \notin C})

\* The fewest word characters on each side of a slash or hyphen that is spaced.
MinWordLen == 3

\* The match with its lookahead dropped: (\w{3,})\s*<c>\s* alone.
SeparatorMatch_no_lookahead(s, p, c) ==
    LET e == SkipWhile(s, p, WordChars)
        q == SkipWhile(s, e, Spaces)
        r == SkipWhile(s, Min({q + 1, Len(s) + 1}), Spaces)
    IN  IF e - p >= MinWordLen /\ q <= Len(s) /\ Ch(s, q) = c
        THEN <<e, r>> ELSE <<0, 0>>

\* A match of ((\w{3,})\s*<c>\s*)(?=\w{3,}) at p, for c a slash or a hyphen:
\* <<the end of group 2, the end of the match>>, or <<0, 0>>. The word runs up
\* to the first character that is not a word character, the blanks up to the
\* first that is not a blank.
SeparatorMatch(s, p, c) ==
    LET e == SkipWhile(s, p, WordChars)
        q == SkipWhile(s, e, Spaces)
        r == SkipWhile(s, Min({q + 1, Len(s) + 1}), Spaces)
    IN  IF /\ e - p >= MinWordLen
           /\ q <= Len(s) /\ Ch(s, q) = c
           /\ r + MinWordLen - 1 <= Len(s)
           /\ AllIn(s, r, r + MinWordLen, WordChars)
        THEN <<e, r>> ELSE <<0, 0>>

\* re.sub("((\w{3,})\s*<c>\s*)(?=\w{3,})", "\2 <c> ", text)
space_separator(s, c) ==
    LET sub[p \in 1..(Len(s) + 1)] ==
            IF p > Len(s) THEN ""
            ELSE LET m == SeparatorMatch(s, p, c)
                 IN  IF m[1] # 0
                     THEN SubSeq(s, p, m[1] - 1) \o " " \o c \o " " \o sub[m[2]]
                     ELSE Ch(s, p) \o sub[p + 1]
    IN  sub[1]

\* The first and the third substitution: the slash is left alone.
_add_space_around_punctuation_hyphen_only(s) ==
    space_separator(space_punctuation_marks(s), "-")

\* The three substitutions, in the order of the code.
_add_space_around_punctuation(s) ==
    space_separator(space_separator(space_punctuation_marks(s), "/"), "-")

\* re.sub("\s+", " ", text): a run of blanks becomes one space; nothing is
\* stripped at the ends.
_remove_extra_spaces(s) ==
    LET r[i \in 0..Len(s)] ==
            IF i = 0 THEN ""
            ELSE IF Ch(s, i) \notin Spaces THEN r[i - 1] \o Ch(s, i)
                 ELSE IF i > 1 /\ Ch(s, i - 1) \in Spaces THEN r[i - 1]
                      ELSE r[i - 1] \o " "
    IN  r[Len(s)]


-----------------------------------------------------------------------------
(* Words: what _singularise and _to_present_tense are built from *)

\* s.endswith(suf)
EndsWith(s, suf) ==
    Len(s) >= Len(suf) /\ SubSeq(s, Len(s) - Len(suf) + 1, Len(s)) = suf

\* s[:-n]
DropLast(s, n) == SubSeq(s, 1, Max({0, Len(s) - n}))

\* s[-n], for a string of n characters at least
FromEnd(s, n) == Ch(s, Len(s) - n + 1)

\* [X]$ n characters before the end: s has n characters and s[-n] is in C.
LastIn(s, n, C) == Len(s) >= n /\ FromEnd(s, n) \in C

\* x in s, for two strings
substring_in(x, s) ==
    \E p \in 1..(Len(s) + 1) :
        p + Len(x) - 1 <= Len(s) /\ SubSeq(s, p, p + Len(x) - 1) = x

\* The first position from p on that holds a character of C.
SkipUntil(s, p, C) ==
    Min({q \in p..(Len(s) + 1) : q > Len(s) \/ Ch(s, q) \in C})

\* str.split(" "): the text cut at each space, empty pieces kept.
split_at_each_space(s) ==
    LET toks[p \in 1..(Len(s) + 1)] ==
            LET e == SkipUntil(s, p, {" "})
            IN  IF e > Len(s) THEN <<SubSeq(s, p, Len(s))>>
                ELSE <<SubSeq(s, p, e - 1)>> \o toks[e + 1]
    IN  toks[1]

\* str.split(): the maximal runs of characters that are not blanks, in order.
split(s) ==
    LET toks[p \in 1..(Len(s) + 1)] ==
            IF p > Len(s) THEN <<>>
            ELSE IF Ch(s, p) \in Spaces THEN toks[p + 1]
                 ELSE LET e == SkipUntil(s, p, Spaces)
                      IN  <<SubSeq(s, p, e - 1)>> \o toks[e]
    IN  toks[1]

\* No keyword at all, whatever the table.
keywords_none(items) == {}

\* The words of the keys of the corrections table.
keywords_of_keys(items) ==
    UNION {{split(items[i][1])[j] : j \in 1..Len(split(items[i][1]))} :
                i \in 1..Len(items)}

\* keywords: the words of the values of the corrections table.
keywords(items) ==
    UNION {{split(items[i][2])[j] : j \in 1..Len(split(items[i][2]))} :
                i \in 1..Len(items)}

\* [aeiou]
Vowels == CharsOf("aeiou")
\* [b-df-hj-np-tv-z]
Consonants == CharsOf("bcdfghjklmnpqrstvwxyz")
\* [b-df-hj-np-tv-xz]
ConsonantsNotY == Consonants \ {"y"}

-----------------------------------------------------------------------------
(* _singularise *)

\* The irregulars of _singularise that have a singular of their own.
_singularise_irregulars_changing ==
    ("children" :> "child") @@ ("geese" :> "goose") @@ ("men" :> "man") @@
    ("women" :> "woman") @@ ("teeth" :> "tooth") @@ ("feet" :> "foot") @@
    ("mice" :> "mouse") @@ ("people" :> "person") @@ ("quizzes" :> "quiz")

\* irregulars of _singularise
_singularise_irregulars ==
    ("children" :> "child") @@ ("geese" :> "goose") @@ ("men" :> "man") @@
    ("women" :> "woman") @@ ("teeth" :> "tooth") @@ ("feet" :> "foot") @@
    ("mice" :> "mouse") @@ ("people" :> "person") @@ ("sheep" :> "sheep") @@
    ("deer" :> "deer") @@ ("fish" :> "fish") @@ ("moose" :> "moose") @@
    ("series" :> "series") @@ ("species" :> "species") @@ ("corps" :> "corps")
    @@ ("lens" :> "lens") @@ ("quizzes" :> "quiz")

\* ^(...)$: the words of ix_exceptions
ix_exceptions ==
    {"matrices", "appendices"}

\* ^(...)$: the words of ex_exceptions
ex_exceptions ==
    {"indices", "vertices", "vortices"}

\* ^(...)$: the words of is_exceptions
is_exceptions ==
    {"theses", "analyses", "crises", "diagnoses", "oases", "parentheses",
     "syntheses", "ellipses", "hypotheses", "emphases"}

\* ^(...)$: the words of se_exceptions
se_exceptions ==
    {"abuses", "accuses", "advises", "analyses", "arises", "bases",
     "bruises", "cases", "causes", "ceases", "chases", "cheeses", "chooses",
     "clauses", "closes", "collapses", "comprises", "compromises",
     "confuses", "corpses", "courses", "cruises", "curses", "databases",
     "decreases", "defenses", "diagnoses", "diseases", "doses", "endoreses",
     "enterprises", "excuses", "exercises", "expenses", "exposes",
     "franchises", "fuses", "glimpses", "horses", "houses", "imposes",
     "impulses", "increases", "leases", "licenses", "loses", "muses",
     "noises", "noses", "nurses", "offenses", "opposes", "pauses", "phases",
     "phrases", "pleases", "poses", "praises", "premises", "promises",
     "proposes", "pulses", "purchases", "purposes", "purses", "raises",
     "realises", "recognises", "refuses", "releases", "responses",
     "reverses", "rises", "rinses", "roses", "senses", "shocases",
     "specialises", "spouses", "suitcases", "suprises", "universes", "uses",
     "vases", "verses", "warehouses"}

\* ^(...)$: the words of ze_exceptions
ze_exceptions ==
    {"analyzes", "amazes", "blazes", "freezes", "prizes", "sizes"}

\* No word is listed as a true -che word.
che_exceptions_none == {}

\* ^(...)$: the words of che_exceptions
che_exceptions ==
    {"aches", "headaches", "niches"}

\* ^(...)$: the words of um_exceptions
um_exceptions ==
    {"data", "bacteria", "memoranda", "strata", "curricula", "millennia",
     "spectra", "referenda"}

\* ^(...)$: the words of on_exceptions
on_exceptions ==
    {"criteria", "phenomena", "automata"}

\* ^(...)$: the words of us_exceptions
us_exceptions ==
    {"radii", "foci", "fungi", "nuclei", "cacti", "stimuli"}

\* ^(...)$: the words of ves_exceptions
ves_exceptions ==
    {"abrasives", "achieves", "addictives", "additives", "adhesives",
     "adjectives", "administratives", "adoptives", "alternatives",
     "approves", "archives", "arrives", "automotives", "aves", "behaves",
     "believes", "bravescaptives", "carves", "captives", "caves", "cloves",
     "collectives", "comparatives", "concaves", "conceives", "conductives",
     "connectives", "conserves", "conservatives", "coves", "contraceptives",
     "craves", "cooperatives", "curves", "deceives", "delves", "deprives",
     "derivatives", "derives", "deserves", "detectives", "digestives",
     "directives", "disapproves", "dissolves", "dives", "doves", "drives",
     "electives", "eves", "evolves", "executives", "explosives", "fives",
     "forgives", "formatives", "fugitives", "gives", "gloves", "graves",
     "grieves", "grooves", "groves", "heaves", "hives", "hoves", "improves",
     "involves", "inventives", "initiatives", "jives", "knaves",
     "legislatives", "locomotives", "loves", "motives", "moves",
     "narratives", "natives", "negatives", "nerves", "normatives",
     "objectives", "observes", "octaves", "olives", "operatives",
     "overdrives", "oxidatives", "paves", "perspectives", "perceives",
     "positives", "predictives", "preserves", "primitives", "progressives",
     "proves", "raves", "receives", "reeves", "relieves", "relives",
     "relatives", "removes", "reserves", "representatives", "resolves",
     "retrieves", "revives", "revolves", "salves", "saves", "serves",
     "shaves", "shoves", "sieves", "slaves", "sleeves", "solves", "starves",
     "staves", "stoves", "strives", "suaves", "survives", "thrives",
     "troves", "twelves", "valves", "verves", "waives", "waves", "weaves"}

\* ^(...)$: the words of as_exceptions
as_exceptions ==
    {"alias", "atlas", "bias", "canvas", "pancreas", "whereas"}

\* Don't singularise short words: the longest word left alone for its length.
ShortWordLen == 3

\* The plural ending taken off a word, rule by rule in the order of the code.
_singularise(word, items) ==
    IF word \in DOMAIN _singularise_irregulars THEN _singularise_irregulars[word]
    ELSE IF word \in keywords(items) THEN word
    ELSE IF Len(word) <= ShortWordLen THEN word
    ELSE IF EndsWith(word, "es") THEN
        IF word \in ix_exceptions THEN DropLast(word, 3) \o "x"
        ELSE IF word \in ex_exceptions THEN DropLast(word, 4) \o "ex"
        ELSE IF word \in is_exceptions THEN DropLast(word, 2) \o "is"
        ELSE IF \/ FromEnd(word, 3) \in {"s", "x", "z"}
                \/ SubSeq(word, Len(word) - 3, Len(word) - 2) \in {"sh", "ch"}
        THEN IF word \in se_exceptions \cup ze_exceptions \cup che_exceptions
             THEN DropLast(word, 1)
             ELSE DropLast(word, 2)
        ELSE IF EndsWith(word, "ies") /\ Len(word) > 4 THEN DropLast(word, 3) \o "y"
        ELSE IF EndsWith(word, "oes") THEN DropLast(word, 2)
        ELSE IF EndsWith(word, "ves") THEN
            IF word \in ves_exceptions THEN DropLast(word, 1)
            ELSE IF EndsWith(word, "ives") THEN DropLast(word, 3) \o "fe"
            ELSE DropLast(word, 3) \o "f"
        ELSE DropLast(word, 1)
    ELSE IF EndsWith(word, "a") THEN
        IF word \in um_exceptions THEN DropLast(word, 1) \o "um"
        ELSE IF word \in on_exceptions THEN DropLast(word, 1) \o "on"
        ELSE word
    ELSE IF EndsWith(word, "i") THEN
        IF word \in us_exceptions THEN DropLast(word, 1) \o "us" ELSE word
    ELSE IF EndsWith(word, "ys") /\ FromEnd(word, 3) \in Vowels
        THEN DropLast(word, 2) \o "y"
    ELSE IF EndsWith(word, "ss") THEN word
    ELSE IF EndsWith(word, "s") /\ FromEnd(word, 2) \notin {"i", "u"} THEN
        IF word \in as_exceptions THEN word ELSE DropLast(word, 1)
    ELSE word


-----------------------------------------------------------------------------
(* _to_present_tense *)

\* irregulars of _to_present_tense
_to_present_tense_irregulars ==
    ("was" :> "is") @@ ("were" :> "are") @@ ("had" :> "has") @@ ("have" :>
    "has") @@ ("did" :> "do") @@ ("went" :> "go") @@ ("ran" :> "run") @@
    ("been" :> "be") @@ ("bled" :> "bleed") @@ ("bred" :> "breed") @@
    ("brought" :> "bring") @@ ("chose" :> "choose") @@ ("fed" :> "feed") @@
    ("fled" :> "flee") @@ ("led" :> "lead") @@ ("saw" :> "see") @@ ("sped" :>
    "speed") @@ ("threw" :> "throw") @@ ("knew" :> "know")

\* No verb keeps its double letter.
double_letter_ending_verbs_none == {}

\* ^(...)$: the words of double_letter_ending_verbs
double_letter_ending_verbs ==
    {"ebb", "add", "superadd", "odd", "redd", "egg", "inn", "err", "shirr",
     "burr", "deburr", "flurr", "skirr", "purr", "putt", "vaxx"}

\* ^(...)$: the words of syllable_division_exceptions
syllable_division_exceptions ==
    {"enucleat", "ideat", "malleat", "nucleat", "permeat", "illaqueat",
     "laureat", "nauseat"}

\* ^(...)$: the words of ea_inclusions
ea_inclusions ==
    {"bequeath", "freath"}

\* ^(...)$: the words of ee_exclusions
ee_exclusions ==
    {"teeth", "seeth"}

\* ^(...)$: the words of ee_ed_form
ee_ed_form ==
    {"agreed", "decreed", "demareed", "disagreed", "emceed", "farseed",
     "filigreed", "freed", "fricasseed", "garnisheed", "gratineed",
     "guaranteed", "kneed", "leveed", "peed", "pureed", "shivareed",
     "squeegeed", "squeed", "teed", "treed", "trusteed"}

\* ^(...)$: the words of ie_exclusions
ie_exclusions ==
    {"julienn"}

\* ^(...)$: the words of oo_exceptions
oo_exceptions ==
    {"sooge"}

\* ^(...)$: the words of ou_exceptions
ou_exceptions ==
    {"rout", "misrout", "rerout", "douch", "accouch"}

\* ^(...)$: the words of ff_exceptions
ff_exceptions ==
    {"coiff", "piaff"}

\* ^(...)$: the words of ranging_inclusions
ranging_inclusions ==
    {"boomerang", "prang"}

\* ^(...)$: the words of inging_ing_specific_inclusions
inging_ing_specific_inclusions ==
    {"bringing", "outringing", "outspringing", "understringing",
     "unstringing", "upspringing"}

\* ^(...)$: the words of inging_inclusions
inging_inclusions ==
    {"ping", "overstring", "ring", "spring", "string", "wring"}

\* ^(...)$: the words of unging_inclusions
unging_inclusions ==
    {"dung", "bung"}

\* ^(...)$: the words of ng_exceptions
ng_exceptions ==
    {"flang", "twing", "spong"}

\* ^(...)$: the words of multisyllable_ll_verbs
multisyllable_ll_verbs ==
    {"bankroll", "bespell", "booksell", "bushfell", "doomscroll", "farewell",
     "hairpull", "handsell", "inscroll", "kvell", "logroll", "misspell",
     "outpoll", "outpull", "outroll", "outsell", "outswell", "outwell",
     "outyell", "oversell", "outsmell", "overswell", "presell", "reenroll",
     "repoll", "reroll", "resell", "respell", "steamroll", "unroll",
     "undersell", "uproll", "upsell", "upswell", "upwell"}

\* ^(...)$: the words of ill_exceptions
ill_exceptions ==
    {"imperill", "perill", "postill"}

\* ^(...)$: the words of or_exceptions
or_exceptions ==
    {"snor", "stor", "restor", "bor", "chokebor", "rebor", "counterbor"}

\* ^(...)$: the words of z_exceptions
z_exceptions ==
    {"whizz", "quizz"}

\* ^(...)$: the words of ing_non_verbs
ing_non_verbs ==
    {"bearing", "beesting", "beeswing", "building", "cabling", "ceiling",
     "cladding", "coupling", "cowling", "darling", "duckling", "fastening",
     "fitting", "fledgling", "hamstring", "hireling", "inkling", "lightning",
     "missing", "monitoring", "morning", "outing", "packing", "quisling",
     "underling", "upbringing", "unwilling", "sapling", "shilling",
     "sibling", "siding", "tailing", "warning", "willing", "wiring"}

\* The alternatives with "un" ahead of "under".
prefixes_un_first == <<"re", "un", "under", "over", "dis", "mis", "out">>

\* ^(re|under|un|over|dis|mis|out): the alternatives in the order of the regex.
prefixes == <<"re", "under", "un", "over", "dis", "mis", "out">>

\* The prefix the regex finds at the start of the verb: the first alternative
\* that the verb starts with, "" when there is none.
PrefixOf(verb) ==
    LET starts(k) ==
            /\ Len(verb) >= Len(prefixes[k])
            /\ SubSeq(verb, 1, Len(prefixes[k])) = prefixes[k]
        hit == {k \in 1..Len(prefixes) : starts(k)}
    IN  IF hit = {} THEN "" ELSE prefixes[Min(hit)]

\* er_exclusions is tested with "stem in er_exclusions", on the text of the
\* pattern itself.
er_exclusions == "^(adher|interfer|premier|rever)$"

\* (color|tailor|sailor|author|anchor|vapor)$
or_incusions == {"color", "tailor", "sailor", "author", "anchor", "vapor"}

\* ^(caball|gimball|metall|pedastall|totall)$
all_exceptions == {"caball", "gimball", "metall", "pedastall", "totall"}

\* ^(chandell|cordell)$
elle_verbs == {"chandell", "cordell"}

\* The rules for a verb in -ed or -ing with its ending taken off (the stem),
\* from the one syllable words down the alphabet, in the order of the code.
present_of_stem(verb, stem) ==
    LET e == stem \o "e" IN
    \* non-past tense words, one syllable root words
    IF stem # "" /\ AllIn(stem, 1, Len(stem) + 1, ConsonantsNotY) THEN verb
    ELSE IF /\ Len(stem) >= 4 /\ EndsWith(stem, "ll") /\ LastIn(stem, 3, Vowels)
            /\ AllIn(stem, 1, Len(stem) - 2, Consonants) THEN stem
    ELSE IF Len(verb) = 5 /\ EndsWith(verb, "ying") /\ Ch(verb, 1) \in Consonants
        THEN Ch(verb, 1) \o "ie"
    ELSE IF Len(verb) = 4 /\ EndsWith(verb, "yed") /\ Ch(verb, 1) \in Consonants
        THEN DropLast(verb, 1)
    ELSE IF Len(verb) = 4 /\ EndsWith(verb, "ied") /\ Ch(verb, 1) \in Consonants
        THEN Ch(verb, 1) \o "ie"
    ELSE IF Len(stem) = 2 /\ Ch(stem, 1) \in Vowels /\ Ch(stem, 2) \in Consonants
        THEN e
    \* stems ending in double letters
    ELSE IF /\ LastIn(stem, 2, CharsOf("bcdghjkmnpqrtv"))
            /\ FromEnd(stem, 1) = FromEnd(stem, 2)
            /\ stem \notin double_letter_ending_verbs THEN DropLast(stem, 1)
    \* stems ending in consonant + vowel + consonant
    ELSE IF /\ LastIn(stem, 3, Consonants) /\ LastIn(stem, 2, Vowels)
            /\ LastIn(stem, 1, CharsOf("bcdfghjklmnpqstvz")) THEN e
    \* two vowel syllable division exceptions
    ELSE IF stem \in syllable_division_exceptions THEN e
    ELSE IF EndsWith(stem, "creat") THEN e
    ELSE IF EndsWith(stem, "lineat") THEN e
    ELSE IF EndsWith(stem, "caseat") THEN e
    ELSE IF EndsWith(stem, "alias") THEN stem
    ELSE IF EndsWith(stem, "bias") THEN stem
    ELSE IF /\ EndsWith(DropLast(stem, 1), "ia")
            /\ LastIn(stem, 1, CharsOf("bcdfghjkmnpqrstvwxyz")) THEN e
    \* vowel digraphs
    ELSE IF EndsWith(stem, "aug") THEN e
    ELSE IF stem \in ea_inclusions THEN stem
    ELSE IF EndsWith(stem, "eath") THEN e
    ELSE IF stem \in ee_exclusions THEN e
    ELSE IF verb \in ee_ed_form THEN DropLast(verb, 1)
    ELSE IF EndsWith(verb, "eed") THEN verb
    ELSE IF EndsWith(stem, "eun") THEN e
    ELSE IF stem \in ie_exclusions THEN e
    ELSE IF stem \in oo_exceptions THEN e
    ELSE IF stem \in ou_exceptions THEN e
    ELSE IF EndsWith(stem, "oug") THEN e
    ELSE IF EndsWith(DropLast(stem, 1), "ua") /\ LastIn(stem, 1, CharsOf("dgktr"))
        THEN e
    ELSE IF stem = "queu" THEN e
    ELSE IF EndsWith(DropLast(stem, 1), "ui") /\ LastIn(stem, 1, CharsOf("rdl"))
        THEN e
    ELSE IF stem = "requit" THEN e
    \* c, f, g
    ELSE IF EndsWith(stem, "c") THEN e
    ELSE IF stem \in ff_exceptions THEN e
    ELSE IF EndsWith(stem, "g") /\ LastIn(stem, 2, CharsOf("rdl")) THEN e
    ELSE IF EndsWith(stem, "chang") THEN e
    ELSE IF EndsWith(stem, "rang") /\ stem \notin ranging_inclusions THEN e
    ELSE IF EndsWith(stem, "eng") THEN e
    ELSE IF /\ EndsWith(stem, "ing") /\ LastIn(stem, 4, CharsOf("bcfghjkmpqrtv"))
            /\ verb \notin inging_ing_specific_inclusions
            /\ stem \notin inging_inclusions THEN e
    ELSE IF EndsWith(stem, "ung") /\ stem \notin unging_inclusions THEN e
    ELSE IF stem \in ng_exceptions THEN e
    \* i
    ELSE IF EndsWith(verb, "ied") THEN DropLast(stem, 1) \o "y"
    \* l
    ELSE IF stem \in multisyllable_ll_verbs THEN stem
    ELSE IF /\ \/ EndsWith(stem, "all") /\ LastIn(stem, 4, CharsOf("bct"))
               \/ EndsWith(stem, "thrall")
            /\ stem \notin all_exceptions THEN stem
    ELSE IF stem \in elle_verbs THEN e
    ELSE IF EndsWith(stem, "tell") THEN stem
    ELSE IF /\ EndsWith(stem, "ill")
            /\ LastIn(stem, 4, CharsOf("bdfghjklmnpqrstwxyz"))
            /\ stem \notin ill_exceptions THEN stem
    ELSE IF EndsWith(stem, "ll") THEN DropLast(stem, 1)
    ELSE IF EndsWith(stem, "l") /\ LastIn(stem, 2, CharsOf("bcdfghjklmnpqrstvz"))
        THEN e
    \* r
    ELSE IF /\ EndsWith(stem, "r") /\ LastIn(stem, 2, CharsOf("aiu"))
            /\ LastIn(stem, 3, Consonants) THEN e
    ELSE IF substring_in(stem, er_exclusions) THEN e
    ELSE IF \/ stem \in or_exceptions
            \/ /\ Len(stem) >= 3 /\ EndsWith(stem, "or")
               /\ AllIn(stem, 1, Len(stem) - 1, Consonants)
            \/ /\ EndsWith(stem, "or") /\ LastIn(stem, 3, CharsOf("ldhp"))
               /\ \A w \in or_incusions : ~EndsWith(stem, w) THEN e
    ELSE IF EndsWith(stem, "uir") THEN e
    \* s, u, v, z
    ELSE IF EndsWith(stem, "ss") THEN stem
    ELSE IF EndsWith(stem, "s") THEN e
    ELSE IF EndsWith(stem, "u") THEN e
    ELSE IF EndsWith(stem, "v") THEN e
    ELSE IF stem \in z_exceptions THEN DropLast(stem, 1)
    ELSE IF EndsWith(stem, "zz") THEN stem
    ELSE IF EndsWith(stem, "z") THEN e
    ELSE stem

\* The verb brought to the present tense.
_to_present_tense(verb, items) ==
    LET irr == _to_present_tense_irregulars
        prefix == PrefixOf(verb)
        root == SubSeq(verb, Len(prefix) + 1, Len(verb))
    IN  IF verb \in DOMAIN irr THEN irr[verb]
        ELSE IF prefix # "" /\ root \in DOMAIN irr THEN prefix \o irr[root]
        ELSE IF verb \in keywords(items) THEN verb
        ELSE IF EndsWith(verb, "ed") THEN
            IF Len(verb) - 2 <= 1 THEN verb
            ELSE present_of_stem(verb, DropLast(verb, 2))
        ELSE IF EndsWith(verb, "ing") THEN
            IF verb \in ing_non_verbs THEN verb
            ELSE present_of_stem(verb, DropLast(verb, 3))
        ELSE verb


-----------------------------------------------------------------------------
(* word_tokenize, on the texts that reach it: the text is cut at its blanks, *)
(* once the tokeniser has split the contractions it knows. The punctuation   *)
(* it would set apart stands apart already, by _add_space_around_punctuation.*)

\* The contractions of letters alone, each as the two tokens it becomes.
CONTRACTIONS2 ==
    <<<<"can", "not">>, <<"gim", "me">>, <<"gon", "na">>, <<"got", "ta">>,
      <<"lem", "me">>, <<"wan", "na">>>>

\* The contraction found at p, in any case, as a whole word ("wanna": before
\* a blank or the end of the text); 0 when there is none.
ContractionAt(s, p) ==
    LET is(k) ==
            LET w == CONTRACTIONS2[k][1] \o CONTRACTIONS2[k][2]
                e == p + Len(w)
            IN  /\ e - 1 <= Len(s)
                /\ Lower(SubSeq(s, p, e - 1)) = w
                /\ WordBoundary(s, p)
                /\ IF w = "wanna" THEN e > Len(s) \/ Ch(s, e) \in Spaces
                   ELSE WordBoundary(s, e)
        hit == {k \in 1..Len(CONTRACTIONS2) : is(k)}
    IN  IF hit = {} THEN 0 ELSE Min(hit)

word_tokenize(s) ==
    LET sub[p \in 1..(Len(s) + 1)] ==
            IF p > Len(s) THEN ""
            ELSE LET k == ContractionAt(s, p)
                     a == IF k = 0 THEN 0 ELSE Len(CONTRACTIONS2[k][1])
                     b == IF k = 0 THEN 0 ELSE Len(CONTRACTIONS2[k][2])
                 IN  IF k # 0
                     THEN " " \o SubSeq(s, p, p + a - 1) \o " "
                              \o SubSeq(s, p + a, p + a + b - 1) \o " " \o sub[p + a + b]
                     ELSE Ch(s, p) \o sub[p + 1]
    IN  split(sub[1])

\* " ".join(tokens)
join(toks) ==
    LET j[i \in 0..Len(toks)] ==
            IF i = 0 THEN ""
            ELSE IF i = 1 THEN toks[1]
                 ELSE j[i - 1] \o " " \o toks[i]
    IN  j[Len(toks)]

-----------------------------------------------------------------------------
(* simple_normalise: one document through the twelve steps *)

\* The steps with typo correction moved to the front.
simple_normalise_typos_first ==
    <<"_correct_typos", "lower", "_remove_commas", "_remove_undesirable_chars",
      "_remove_duplicate_contiguous_chars", "_add_space_around_punctuation",
      "_anonymise_sentence", "_remove_extra_spaces",
      "word_tokenize", "_to_present_tense", "_singularise", "join">>

\* The steps with the singulariser ahead of the tense aligner.
simple_normalise_singular_first ==
    <<"lower", "_remove_commas", "_remove_undesirable_chars",
      "_remove_duplicate_contiguous_chars", "_add_space_around_punctuation",
      "_anonymise_sentence", "_remove_extra_spaces", "_correct_typos",
      "word_tokenize", "_singularise", "_to_present_tense", "join">>

\* The steps as the function body lists them, 1 to 12.
simple_normalise ==
    <<"lower", "_remove_commas", "_remove_undesirable_chars",
      "_remove_duplicate_contiguous_chars", "_add_space_around_punctuation",
      "_anonymise_sentence", "_remove_extra_spaces", "_correct_typos",
      "word_tokenize", "_to_present_tense", "_singularise", "join">>

\* The step that follows a step, "done" after the last.
After(step) ==
    LET k == CHOOSE i \in 1..Len(simple_normalise) : simple_normalise[i] = step
    IN  IF k = Len(simple_normalise) THEN "done" ELSE simple_normalise[k + 1]

\* The longest document made of the characters of DocAlphabet.
MaxDocLen == 3
DocAlphabet == {"A", "s", "1", " ", "/"}

\* The documents: the short ones, and maintenance texts that hold a key in
\* upper case, an identifier, a phrase key, plurals and past tenses.
Documents ==
    StringsUpTo(DocAlphabet, MaxDocLen) \cup
    {"PLC", "plc faulty", "Replaced  A1,pumps", "air/con", "air / con failed",
     "a1", "Pumps leaking", "changed PLC-filters", "Cannot fix valves.",
     "  test   tube  ", "readings", "check seeds"}

\* The corrections tables: none, and one with an abbreviation, an identifier
\* and a phrase that holds another key.
DocTables ==
    {<<>>,
     <<<<"con", "condition">>, <<"plc", "logic controller">>,
       <<"a1", "valve">>, <<"air / con", "air conditioner">>>>}

InitPipeline ==
    /\ pc = simple_normalise[1]
    /\ document \in Documents
    /\ text = document
    /\ corrections_dict \in DocTables
    /\ tokens = <<>>
    /\ stages = <<>>
    /\ anonIdle /\ typoIdle /\ batchIdle /\ unitIdle
    /\ fileIdle

\* A step of the body taken: the step is noted with the text it received.
Taken(step) ==
    /\ pc = step
    /\ pc' = After(step)
    /\ stages' = Append(stages, [stage |-> step, input |-> text])
    /\ UNCHANGED <<document, corrections_dict, anonVars, typoVars, batchVars, unitVars, fileVars>>

Lowercase ==
    Taken("lower") /\ text' = Lower(text) /\ UNCHANGED tokens
RemoveCommas ==
    Taken("_remove_commas") /\ text' = _remove_commas(text) /\ UNCHANGED tokens
RemoveUndesirableChars ==
    /\ Taken("_remove_undesirable_chars")
    /\ text' = _remove_undesirable_chars(text) /\ UNCHANGED tokens
RemoveDuplicateContiguousChars ==
    /\ Taken("_remove_duplicate_contiguous_chars")
    /\ text' = _remove_duplicate_contiguous_chars(text) /\ UNCHANGED tokens
AddSpaceAroundPunctuation ==
    /\ Taken("_add_space_around_punctuation")
    /\ text' = _add_space_around_punctuation(text) /\ UNCHANGED tokens
AnonymiseText ==
    /\ Taken("_anonymise_sentence")
    /\ text' = _anonymise_sentence(text) /\ UNCHANGED tokens
RemoveExtraSpaces ==
    /\ Taken("_remove_extra_spaces")
    /\ text' = _remove_extra_spaces(text) /\ UNCHANGED tokens
CorrectTypos ==
    /\ Taken("_correct_typos")
    /\ text' = _correct_typos(text, corrections_dict) /\ UNCHANGED tokens
Tokenize ==
    Taken("word_tokenize") /\ tokens' = word_tokenize(text) /\ UNCHANGED text
AlignTense ==
    /\ Taken("_to_present_tense")
    /\ tokens' = [i \in 1..Len(tokens) |->
                    _to_present_tense(tokens[i], corrections_dict)]
    /\ UNCHANGED text
Singularise ==
    /\ Taken("_singularise")
    /\ tokens' = [i \in 1..Len(tokens) |-> _singularise(tokens[i], corrections_dict)]
    /\ UNCHANGED text
Rejoin ==
    Taken("join") /\ text' = join(tokens) /\ UNCHANGED tokens

NextPipeline ==
    \/ Lowercase \/ RemoveCommas \/ RemoveUndesirableChars
    \/ RemoveDuplicateContiguousChars \/ AddSpaceAroundPunctuation
    \/ AnonymiseText \/ RemoveExtraSpaces \/ CorrectTypos
    \/ Tokenize \/ AlignTense \/ Singularise \/ Rejoin

SpecPipeline == InitPipeline /\ [][NextPipeline]_vars


-----------------------------------------------------------------------------
(* What the claim about the order of the steps speaks of *)

\* A text in lower case and anonymised: none of its words has the shape of an
\* identifier, and its only word with a capital is AssetID.
LowercasedAndAnonymised(t) ==
    LET segs == Segments(t)
    IN  \A k \in 1..Len(segs) :
            IsWord(segs[k]) => /\ ~HasIdentifierShape(segs[k])
                               /\ segs[k] = Lower(segs[k]) \/ segs[k] = "AssetID"

\* The steps in the order they were found to run.
StepsInOrder ==
    <<"lower", "_remove_commas", "_remove_undesirable_chars",
      "_remove_duplicate_contiguous_chars", "_add_space_around_punctuation",
      "_anonymise_sentence", "_remove_extra_spaces", "_correct_typos",
      "word_tokenize", "_to_present_tense", "_singularise", "join">>

\* C1 as stated: typo correction runs before lowercasing and before
\* anonymisation.
C1_TyposBeforeLowercasing ==
    \A i, j \in 1..Len(stages) :
        /\ stages[i].stage = "_correct_typos"
        /\ stages[j].stage \in {"lower", "_anonymise_sentence"}
        => i < j

\* C1, amended: the steps run in the order lowercasing, comma removal,
\* character removal, duplicate collapse, punctuation spacing, anonymisation,
\* whitespace collapse, typo correction, tokenisation, tense, singularisation,
\* rejoin, each once; typo correction receives a text already in lower case
\* and already anonymised.
C1_TyposAfterAnonymisation ==
    /\ Len(stages) <= Len(StepsInOrder)
    /\ \A i \in 1..Len(stages) : stages[i].stage = StepsInOrder[i]
    /\ pc = "done" => Len(stages) = Len(StepsInOrder)
    /\ \A i \in 1..Len(stages) :
        stages[i].stage = "_correct_typos" =>
            LowercasedAndAnonymised(stages[i].input)

\* A finished call on a document that spells a key of the table in upper
\* case only, and that comes out with the key's replacement.
C1_Witness ==
    /\ pc = "done"
    /\ \E n \in 1..Len(corrections_dict) :
        /\ OccursAsWholeWord(Lower(document), corrections_dict[n][1])
        /\ ~OccursAsWholeWord(document, corrections_dict[n][1])
        /\ Contains(text, corrections_dict[n][2])


-----------------------------------------------------------------------------
(* What the claim about the insertion order of the table speaks of *)

\* The tables that hold the items of a table, in every insertion order.
InsertionOrders(items) ==
    LET n == Len(items)
        orders == {f \in [1..n -> 1..n] : \A i, j \in 1..n : i # j => f[i] # f[j]}
    IN  {[i \in 1..n |-> items[f[i]]] : f \in orders}

\* No two keys of the table have the same length.
KeyLengthsDiffer(items) ==
    \A i, j \in 1..Len(items) : i # j => Len(items[i][1]) # Len(items[j][1])

\* Where the item applied i-th stands in the table.
InsertedAt(i) ==
    CHOOSE n \in 1..Len(corrections_dict) :
        /\ Lower(corrections_dict[n][1]) = applied[i].key
        /\ corrections_dict[n][2] = applied[i].value

\* C11 as stated: the same items inserted in any other order give the same
\* corrected text.
C11_InsertionOrderIrrelevant ==
    pc = "done" =>
        \A t \in InsertionOrders(corrections_dict) :
            _correct_typos(typo_text, t) = corrected_text

\* C11, amended: the same items inserted in any other order give the same
\* corrected text when no two keys have the same length; keys of the same
\* length are applied in the order of their insertion.
C11_OrderOfEqualLengthKeysCounts ==
    pc = "done" =>
        /\ KeyLengthsDiffer(corrections_dict) =>
            \A t \in InsertionOrders(corrections_dict) :
                _correct_typos(typo_text, t) = corrected_text
        /\ \A i, j \in 1..Len(applied) :
            i < j /\ Len(applied[i].key) = Len(applied[j].key)
                => InsertedAt(i) < InsertedAt(j)

\* A finished call with two keys of different lengths, the shorter inserted
\* first, that both changed the text.
C11_Witness ==
    /\ pc = "done"
    /\ Len(corrections_dict) = 2
    /\ Len(corrections_dict[1][1]) < Len(corrections_dict[2][1])
    /\ applied[1].after # typo_text
    /\ applied[2].after # applied[1].after


-----------------------------------------------------------------------------
(* Shape normalisation: the steps 1 to 5 and 7 of simple_normalise, made    *)
(* once and then once more on their own result                              *)

\* The steps with the last one, the collapse of the blanks, left out.
shape_normalise_blanks_kept(s) ==
    _add_space_around_punctuation(
        _remove_duplicate_contiguous_chars(
            _remove_undesirable_chars(_remove_commas(Lower(s)))))

\* Lowercase, commas, undesirable characters, duplicates, spacing, blanks.
shape_normalise(s) ==
    _remove_extra_spaces(
        _add_space_around_punctuation(
            _remove_duplicate_contiguous_chars(
                _remove_undesirable_chars(_remove_commas(Lower(s))))))

\* The texts: up to MaxPieces pieces in a row, each a fragment of three word
\* characters or of two, a blank, a separator, a punctuation mark, a comma
\* or a character that is not kept.
MaxPieces == 4
Pieces == {"abc", "De", " ", "/", "-", ".", ",", "!"}
Flatten(q) ==
    LET f[i \in 0..Len(q)] == IF i = 0 THEN "" ELSE f[i - 1] \o q[i]
    IN  f[Len(q)]
ShapeTexts == {Flatten(q) : q \in SeqsUpTo(Pieces, MaxPieces)}

InitShape ==
    /\ pc = "shape"
    /\ shape_text \in ShapeTexts
    /\ passes = <<>>
    /\ spaced = Idle
    /\ corrections_dict = Idle
    /\ anonIdle /\ typoIdle /\ batchIdle /\ pipeIdle /\ wordIdle
    /\ fileIdle

\* One pass, on the text as passed or on the result of the pass before.
ShapeNormalise ==
    /\ pc = "shape"
    /\ Len(passes) < 2
    /\ passes' = Append(passes, shape_normalise(IF passes = <<>> THEN shape_text
                                                ELSE passes[Len(passes)]))
    /\ UNCHANGED <<pc, shape_text, spaced, word_in, word_out, verb_in, verb_out>>
    /\ UNCHANGED <<corrections_dict, anonVars, typoVars, batchVars, pipeVars, fileVars>>

ShapeDone ==
    /\ pc = "shape"
    /\ Len(passes) = 2
    /\ pc' = "done"
    /\ UNCHANGED <<corrections_dict, anonVars, typoVars, batchVars, pipeVars, unitVars, fileVars>>

NextShape == ShapeNormalise \/ ShapeDone

SpecShape == InitShape /\ [][NextShape]_vars

\* C12: shape normalisation is idempotent: the second pass, made on the
\* result of the first, returns that result unchanged.
C12_ShapeIdempotent ==
    Len(passes) = 2 => passes[2] = passes[1]

\* Two passes made on a text that holds a slash to space and a character
\* that is not kept.
C12_Witness ==
    /\ pc = "done"
    /\ Contains(shape_text, "abc/abc") /\ Contains(shape_text, "!")
    /\ Contains(passes[1], "abc / abc") /\ ~Contains(passes[1], "!")
    /\ passes[2] = passes[1]


-----------------------------------------------------------------------------
(* What the claim about the blanks of the result speaks of *)

\* C13: the text returned has no blank at its start or at its end and no two
\* blanks in a row, its blanks are spaces, and none of its tokens is empty.
C13_SingleSpaced ==
    pc = "done" =>
        /\ text # "" => Ch(text, 1) \notin Spaces /\ Ch(text, Len(text)) \notin Spaces
        /\ \A i \in 1..(Len(text) - 1) :
            ~(Ch(text, i) \in Spaces /\ Ch(text, i + 1) \in Spaces)
        /\ \A i \in 1..Len(text) : Ch(text, i) \in Spaces => Ch(text, i) = " "
        /\ \A k \in 1..Len(tokens) : tokens[k] # ""

\* A finished call on a document with blanks at its start, at its end and in
\* a row between two of its words.
C13_Witness ==
    /\ pc = "done"
    /\ Contains(document, "t  ")
    /\ Ch(document, 1) = " " /\ Ch(document, Len(document)) = " "
    /\ Len(tokens) = 2


-----------------------------------------------------------------------------
(* Punctuation spacing: one call of _add_space_around_punctuation, on a     *)
(* text as the steps 1 to 4 of simple_normalise leave it                    *)

SpacingTexts ==
    {_remove_duplicate_contiguous_chars(
        _remove_undesirable_chars(_remove_commas(Lower(t)))) :
            t \in ShapeTexts \cup
                  {"HELLO/hi hey/HEY hi/hey HI/hi", "word-hyphen-word",
                   "o-ring long-ring", "abc - def", "abc  -  def", "ab - cde",
                   "abc/ de", "test/tube-s"}}

InitSpacing ==
    /\ pc = "_add_space_around_punctuation"
    /\ shape_text \in SpacingTexts
    /\ spaced = ""
    /\ passes = Idle
    /\ corrections_dict = Idle
    /\ anonIdle /\ typoIdle /\ batchIdle /\ pipeIdle /\ wordIdle
    /\ fileIdle

AddSpaceAroundSeparators ==
    /\ pc = "_add_space_around_punctuation"
    /\ spaced' = _add_space_around_punctuation(shape_text)
    /\ pc' = "done"
    /\ UNCHANGED <<shape_text, passes, word_in, word_out, verb_in, verb_out>>
    /\ UNCHANGED <<corrections_dict, anonVars, typoVars, batchVars, pipeVars, fileVars>>

NextSpacing == AddSpaceAroundSeparators

SpecSpacing == InitSpacing /\ [][NextSpacing]_vars

-----------------------------------------------------------------------------
(* What the claims about slashes and hyphens speak of: a separator, the     *)
(* blanks around it and the word fragments next to it.                      *)

Separators == {"/", "-"}

\* The position of the k-th separator of a text.
SeparatorAt(s, k) ==
    CHOOSE p \in 1..Len(s) :
        /\ Ch(s, p) \in Separators
        /\ Cardinality({q \in 1..p : Ch(s, q) \in Separators}) = k
SeparatorCount(s) == Cardinality({q \in 1..Len(s) : Ch(s, q) \in Separators})

\* The blanks right before and right after position p.
BlanksBefore(s, p) ==
    p - 1 - Max({0} \cup {i \in 1..(p - 1) : Ch(s, i) \notin Spaces})
BlanksAfter(s, p) ==
    Min({Len(s) + 1} \cup {i \in (p + 1)..Len(s) : Ch(s, i) \notin Spaces}) - p - 1

\* The word characters in a row that end right before position p, and that
\* start right after it, blanks skipped.
FragmentBefore(s, p) ==
    LET e == p - 1 - BlanksBefore(s, p)
    IN  e - Max({0} \cup {i \in 1..e : Ch(s, i) \notin WordChars})
FragmentAfter(s, p) ==
    LET b == p + 1 + BlanksAfter(s, p)
    IN  Min({Len(s) + 1} \cup {i \in b..Len(s) : Ch(s, i) \notin WordChars}) - b

\* The k-th separator of the text passed lies between two word fragments.
BetweenFragments(k) ==
    LET p == SeparatorAt(shape_text, k)
    IN  FragmentBefore(shape_text, p) >= 1 /\ FragmentAfter(shape_text, p) >= 1

\* Both fragments next to it are long, one at least is, none is.
Long == 3
BothLong(k) ==
    LET p == SeparatorAt(shape_text, k)
    IN  FragmentBefore(shape_text, p) >= Long /\ FragmentAfter(shape_text, p) >= Long
OneLong(k) ==
    LET p == SeparatorAt(shape_text, k)
    IN  FragmentBefore(shape_text, p) >= Long \/ FragmentAfter(shape_text, p) >= Long

\* The k-th separator has one space on each side in the result; it has in the
\* result the blanks it had in the text passed.
SingleSpaced(k) ==
    LET q == SeparatorAt(spaced, k)
    IN  /\ BlanksBefore(spaced, q) = 1 /\ Ch(spaced, q - 1) = " "
        /\ BlanksAfter(spaced, q) = 1 /\ Ch(spaced, q + 1) = " "
Untouched(k) ==
    LET p == SeparatorAt(shape_text, k)
        q == SeparatorAt(spaced, k)
    IN  /\ Ch(spaced, q) = Ch(shape_text, p)
        /\ BlanksBefore(spaced, q) = BlanksBefore(shape_text, p)
        /\ BlanksAfter(spaced, q) = BlanksAfter(shape_text, p)

\* C14 as stated: a separator between two short fragments is left untouched,
\* and every other separator between two fragments gets a space on each side.
C14_SpacedWhenOneFragmentLong ==
    pc = "done" =>
        \A k \in 1..SeparatorCount(shape_text) :
            BetweenFragments(k) =>
                IF OneLong(k) THEN SingleSpaced(k) ELSE Untouched(k)

\* C14, amended: a separator between two fragments of which one at least is
\* short, the other long or short, is left untouched; no separator is added
\* or removed.
C14_UntouchedWhenOneFragmentShort ==
    pc = "done" =>
        /\ SeparatorCount(spaced) = SeparatorCount(shape_text)
        /\ \A k \in 1..SeparatorCount(shape_text) :
            BetweenFragments(k) /\ ~BothLong(k) => Untouched(k)

\* A call on a text with a separator between a long and a short fragment and
\* no blank, left as it was.
C14_Witness ==
    /\ pc = "done"
    /\ \E k \in 1..SeparatorCount(shape_text) :
        /\ BetweenFragments(k) /\ OneLong(k) /\ ~BothLong(k)
        /\ BlanksBefore(shape_text, SeparatorAt(shape_text, k)) = 0
        /\ BlanksAfter(shape_text, SeparatorAt(shape_text, k)) = 0
        /\ Untouched(k)

\* C15: a separator between two fragments gets a single space on each side
\* when both fragments are long, and stays as it was when either is short.
C15_SpacedWhenBothFragmentsLong ==
    pc = "done" =>
        \A k \in 1..SeparatorCount(shape_text) :
            BetweenFragments(k) =>
                IF BothLong(k) THEN SingleSpaced(k) ELSE Untouched(k)

\* A call on a text with two separators and no blank: one between two long
\* fragments, spaced, and one with a short fragment next to it, left attached.
C15_Witness ==
    /\ pc = "done"
    /\ \A i \in 1..Len(shape_text) : Ch(shape_text, i) \notin Spaces
    /\ \E k, m \in 1..SeparatorCount(shape_text) :
        /\ BetweenFragments(k) /\ BothLong(k) /\ SingleSpaced(k)
        /\ BetweenFragments(m) /\ ~BothLong(m) /\ Untouched(m)


-----------------------------------------------------------------------------
(* The singulariser: one call of _singularise *)

\* The longest word made of the letters of WordAlphabet.
MaxWordLen == 4
WordAlphabet == {"a", "e", "i", "s", "u", "y", "v", "x"}

\* The words: the short ones, the words the rules list, and plurals and
\* singulars of the maintenance texts.
Words ==
    StringsUpTo(WordAlphabet, MaxWordLen) \cup DOMAIN _singularise_irregulars
    \cup ix_exceptions \cup ex_exceptions \cup is_exceptions \cup se_exceptions
    \cup ze_exceptions \cup che_exceptions \cup ves_exceptions \cup um_exceptions
    \cup on_exceptions \cup us_exceptions \cup as_exceptions
    \cup {"glass", "glasses", "focus", "tennis", "campuses", "pumps", "foxes",
          "berries", "potatoes", "knives", "leaves", "rays", "boys", "churches",
          "bushes", "buzzes", "gas", "AssetID", "valve", "is", "was",
          "sheep", "deer", "fish", "moose", "series", "species", "corps",
          "lens", "men", "geese", "feet", "houses", "niches", "oranges"}

\* The corrections tables: none, and one whose values hold an irregular noun,
\* a short word and two plurals.
WordTables ==
    {<<>>, <<<<"gs", "glasses  buses geese">>, <<"mn", "men is">>>>}

InitSingularise ==
    /\ pc = "_singularise"
    /\ word_in \in Words
    /\ corrections_dict \in WordTables
    /\ word_out = ""
    /\ verb_in = Idle /\ verb_out = Idle
    /\ anonIdle /\ typoIdle /\ batchIdle /\ pipeIdle /\ shapeIdle
    /\ fileIdle

SingulariseWord ==
    /\ pc = "_singularise"
    /\ word_out' = _singularise(word_in, corrections_dict)
    /\ pc' = "done"
    /\ UNCHANGED <<word_in, verb_in, verb_out, shape_text, passes, spaced>>
    /\ UNCHANGED <<corrections_dict, anonVars, typoVars, batchVars, pipeVars, fileVars>>

NextSingularise == SingulariseWord

SpecSingularise == InitSingularise /\ [][NextSingularise]_vars

-----------------------------------------------------------------------------
(* What the claims about the singulariser speak of *)

\* w is a word of the value v: it stands in v between two blanks or ends.
IsWordOf(w, v) ==
    /\ w # ""
    /\ \A i \in 1..Len(w) : Ch(w, i) \notin Spaces
    /\ \E p \in 1..Len(v) :
        /\ p + Len(w) - 1 <= Len(v)
        /\ SubSeq(v, p, p + Len(w) - 1) = w
        /\ p = 1 \/ Ch(v, p - 1) \in Spaces
        /\ p + Len(w) - 1 = Len(v) \/ Ch(v, p + Len(w)) \in Spaces

\* w is in the keyword vocabulary of the table.
InVocabulary(w) ==
    \E n \in 1..Len(corrections_dict) : IsWordOf(w, corrections_dict[n][2])

\* C16 as stated: a word of the vocabulary, or of three letters at most, is
\* returned unchanged, whatever else it is.
C16_ProtectedWordsFirst ==
    pc = "done" =>
        (InVocabulary(word_in) \/ Len(word_in) <= 3 => word_out = word_in)

\* C16, amended: the table of irregular nouns comes first: a word of the table
\* is returned as the table says, in the vocabulary or not, short or not; any
\* other word of the vocabulary, or of three letters at most, is returned
\* unchanged.
C16_IrregularsThenProtectedWords ==
    pc = "done" =>
        IF word_in \in DOMAIN _singularise_irregulars
        THEN word_out = _singularise_irregulars[word_in]
        ELSE (InVocabulary(word_in) \/ Len(word_in) <= 3 => word_out = word_in)

\* A call on a word of the vocabulary that the table of irregular nouns
\* changes, and in the same state a table that holds plurals.
C16_Witness ==
    /\ pc = "done"
    /\ InVocabulary(word_in) /\ InVocabulary("buses")
    /\ word_in \in DOMAIN _singularise_irregulars
    /\ word_out # word_in

\* The irregular nouns whose singular is the word itself.
InvariantNouns ==
    {"sheep", "deer", "fish", "moose", "series", "species", "corps", "lens"}

\* C17: an irregular noun listed with itself, a word in -ss, a word in -is
\* and a word in -us are returned unchanged.
C17_FixedPoints ==
    pc = "done" =>
        ((word_in \in InvariantNouns \/ EndsWith(word_in, "ss")
            \/ EndsWith(word_in, "is") \/ EndsWith(word_in, "us"))
         => word_out = word_in)

\* A call on a word in -us of more than three letters that no table protects.
C17_Witness ==
    /\ pc = "done"
    /\ EndsWith(word_in, "us") /\ Len(word_in) > 3
    /\ ~InVocabulary(word_in)
    /\ word_in \notin DOMAIN _singularise_irregulars
    /\ word_out = word_in


-----------------------------------------------------------------------------
(* The tense aligner: one call of _to_present_tense *)

\* The longest stem made of the letters of StemAlphabet.
MaxStemLen == 3
StemAlphabet == {"a", "e", "y", "b", "l", "s"}
Suffixes == {"", "ed", "ing"}

\* The verbs: the stems with and without an ending, the irregular verbs with
\* and without a prefix, and verbs of the maintenance texts.
Verbs ==
    {st \o su : st \in StringsUpTo(StemAlphabet, MaxStemLen), su \in Suffixes}
    \cup DOMAIN _to_present_tense_irregulars
    \cup {prefixes[k] \o r : k \in 1..Len(prefixes),
                             r \in DOMAIN _to_present_tense_irregulars}
    \cup {"running", "worked", "played", "busted", "jumped", "spinning",
          "stunning", "broken", "formed", "going", "bearing", "wiring",
          "replaced", "leaking", "trying", "engine", "filling", "unded",
          "jogging", "jogged", "monitoring", "adding", "added", "egging",
          "erred", "purring", "putted", "inning", "superadded", "odding",
          "shirred", "burring", "deburred", "flurring", "skirring", "redding",
          "vaxxed", "cladding", "fitting", "stopped", "occurred", "hummed"}

\* The corrections tables: none, and one whose values hold an irregular verb
\* with and without a prefix, and verbs in -ed and -ing.
VerbTables ==
    {<<>>, <<<<"uw", "underwent  was">>, <<"ag", "aing faced leaking">>>>}

InitTense ==
    /\ pc = "_to_present_tense"
    /\ verb_in \in Verbs
    /\ corrections_dict \in VerbTables
    /\ verb_out = ""
    /\ word_in = Idle /\ word_out = Idle
    /\ anonIdle /\ typoIdle /\ batchIdle /\ pipeIdle /\ shapeIdle
    /\ fileIdle

AlignVerb ==
    /\ pc = "_to_present_tense"
    /\ verb_out' = _to_present_tense(verb_in, corrections_dict)
    /\ pc' = "done"
    /\ UNCHANGED <<verb_in, word_in, word_out, shape_text, passes, spaced>>
    /\ UNCHANGED <<corrections_dict, anonVars, typoVars, batchVars, pipeVars, fileVars>>

NextTense == AlignVerb

SpecTense == InitTense /\ [][NextTense]_vars

-----------------------------------------------------------------------------
(* What the claims about the tense aligner speak of *)

\* The prefixes a verb may carry.
VerbPrefixes == {"re", "under", "un", "over", "dis", "mis", "out"}

\* The verb is the prefix p followed by the root r.
IsPrefixed(v, p, r) == v = p \o r

\* The verb is a prefix followed by an irregular verb.
PrefixedIrregular(v) ==
    \E p \in VerbPrefixes : \E r \in DOMAIN _to_present_tense_irregulars :
        IsPrefixed(v, p, r)

\* C18: a verb of the table of irregular verbs is returned as the table says,
\* in the vocabulary or not, and a prefix followed by a verb of the table is
\* returned as the prefix followed by what the table says of the root.
C18_IrregularsFirst ==
    pc = "done" /\ verb_in # Idle =>
        /\ verb_in \in DOMAIN _to_present_tense_irregulars
            => verb_out = _to_present_tense_irregulars[verb_in]
        /\ \A p \in VerbPrefixes : \A r \in DOMAIN _to_present_tense_irregulars :
            IsPrefixed(verb_in, p, r)
                => verb_out = p \o _to_present_tense_irregulars[r]

\* A call on "underwent", a word of the vocabulary, that returns "undergo".
C18_Witness ==
    /\ pc = "done" /\ verb_in # Idle
    /\ InVocabulary(verb_in)
    /\ IsPrefixed(verb_in, "under", "went")
    /\ verb_out = "undergo"

\* The stem of a verb in -ed or -ing: the verb without its ending.
StemOf(v) ==
    IF EndsWith(v, "ed") THEN DropLast(v, 2) ELSE DropLast(v, 3)

\* The stem is made of consonants alone (b-d, f-h, j-n, p-t, v-x, z).
OnlyConsonants(st) ==
    st # "" /\ \A i \in 1..Len(st) : Ch(st, i) \in ConsonantsNotY

\* The verb is in -ed or -ing and neither the table of irregular verbs nor
\* the vocabulary settles it.
RegularEnding(v) ==
    /\ EndsWith(v, "ed") \/ EndsWith(v, "ing")
    /\ v \notin DOMAIN _to_present_tense_irregulars
    /\ ~PrefixedIrregular(v)
    /\ ~InVocabulary(v)

\* C19 as stated: a verb in -ed or -ing whose stem has one letter at most, or
\* consonants alone, is returned unchanged.
C19_ShortAndConsonantStemsKept ==
    pc = "done" /\ verb_in # Idle =>
        (RegularEnding(verb_in)
            /\ (Len(StemOf(verb_in)) <= 1 \/ OnlyConsonants(StemOf(verb_in)))
         => verb_out = verb_in)


-----------------------------------------------------------------------------
(* Several calls of simple_normalise in a row, with one corrections table *)

\* The calls of a session.
MaxCalls == 3

\* The documents of a session: with keys of the table in both cases, a phrase
\* key, plurals and past tenses.
SessionDocuments == {"PLC", "plc faulty", "Pumps leaking", "air / con failed", "a1"}

\* The corrections tables: none, one with a short key ahead of a longer one,
\* and one with two keys that differ by their case alone.
SessionTables ==
    DocTables \cup {<<<<"plc", "Pumps">>, <<"PLC", "a1">>>>}

\* The items of the table once sorted(corrections_dict.items(), ...) has run,
\* sorting the table itself.
items_after_sort_in_place(items) == sorted_items(items)

\* The items of the table once sorted(corrections_dict.items(), ...) has run:
\* sorted builds a new list, and dict(...) a new table, sorted_dict; the table
\* it was given is as it was.
items_after_sorted(items) == items

InitSession ==
    /\ pc = simple_normalise[1]
    /\ document \in SessionDocuments
    /\ text = document
    /\ corrections_dict \in SessionTables
    /\ tokens = <<>>
    /\ stages = <<>>
    /\ anonIdle /\ typoIdle /\ batchIdle /\ unitIdle
    /\ fileIdle

\* Step 8 with what it leaves of the table it was given.
CorrectTyposOfCall ==
    /\ pc = "_correct_typos"
    /\ pc' = After("_correct_typos")
    /\ stages' = Append(stages, [stage |-> "_correct_typos", input |-> text])
    /\ text' = _correct_typos(text, corrections_dict)
    /\ corrections_dict' = items_after_sorted(corrections_dict)
    /\ UNCHANGED <<document, tokens, anonVars, typoVars, batchVars, unitVars, fileVars>>

\* return text
ReturnText ==
    /\ pc = "done"
    /\ pc' = "returned"
    /\ stages' = Append(stages, [stage |-> "return", input |-> text])
    /\ UNCHANGED <<document, text, tokens, corrections_dict>>
    /\ UNCHANGED <<anonVars, typoVars, batchVars, unitVars, fileVars>>

\* The steps a call leaves in stages: the steps of the body and the return.
StepsOfCall == Len(simple_normalise) + 1

\* The calls returned so far.
Returned == Len(stages) \div StepsOfCall

\* The next call, on any document: text is the parameter, tokens is not
\* assigned before step 9.
CallAgain ==
    /\ pc = "returned"
    /\ Returned < MaxCalls
    /\ document' \in SessionDocuments
    /\ text' = document'
    /\ pc' = simple_normalise[1]
    /\ UNCHANGED <<tokens, stages, corrections_dict>>
    /\ UNCHANGED <<anonVars, typoVars, batchVars, unitVars, fileVars>>

NextSession ==
    \/ Lowercase \/ RemoveCommas \/ RemoveUndesirableChars
    \/ RemoveDuplicateContiguousChars \/ AddSpaceAroundPunctuation
    \/ AnonymiseText \/ RemoveExtraSpaces \/ CorrectTyposOfCall
    \/ Tokenize \/ AlignTense \/ Singularise \/ Rejoin
    \/ ReturnText \/ CallAgain

SpecSession == InitSession /\ [][NextSession]_vars

\* The text given to the k-th call and the text it returned.
GivenTo(k) == stages[(k - 1) * StepsOfCall + 1].input
ReturnedBy(k) == stages[k * StepsOfCall].input

\* Two calls on the same text have returned the same text, whatever was
\* normalised before each of them.
SameTextSameResult ==
    \A j, k \in 1..Returned : GivenTo(j) = GivenTo(k) => ReturnedBy(j) = ReturnedBy(k)

-----------------------------------------------------------------------------
(* The -es rule of the singulariser *)

\* The word reaches the suffix rules: it is neither an irregular noun nor a
\* word of the vocabulary, and has more than three letters.
ReachesRules(w) ==
    /\ w \notin DOMAIN _singularise_irregulars
    /\ ~InVocabulary(w)
    /\ Len(w) > 3

\* The Greek and Latin plurals in -ices and -ses.
GreekLatinPlurals == ix_exceptions \cup ex_exceptions \cup is_exceptions

\* The word is in -es after a sibilant: s, x or z, or sh or ch.
SibilantPlural(w) ==
    /\ EndsWith(w, "es")
    /\ \/ \E c \in {"s", "x", "z"} : EndsWith(w, c \o "es")
       \/ EndsWith(w, "shes") \/ EndsWith(w, "ches")

\* The words listed as ending in a true -se, -ze or -che.
TrueEWords == se_exceptions \cup ze_exceptions \cup {"aches", "headaches", "niches"}

\* C26: a plural in -es after a sibilant that reaches the suffix rules and is
\* no Greek or Latin plural loses its last two letters, or its last letter
\* alone when it is listed as a true -se, -ze or -che word.
C26_SibilantPlurals ==
    pc = "done" =>
        (ReachesRules(word_in) /\ word_in \notin GreekLatinPlurals
            /\ SibilantPlural(word_in)
         => word_out = IF word_in \in TrueEWords
                       THEN DropLast(word_in, 1)
                       ELSE DropLast(word_in, 2))

\* A call on a listed -se word that reaches the rule and loses its s alone.
C26_Witness ==
    /\ pc = "done"
    /\ ReachesRules(word_in) /\ SibilantPlural(word_in)
    /\ word_in \in se_exceptions
    /\ word_out \o "s" = word_in


-----------------------------------------------------------------------------
(* Keyword protection and the double letters of the tense aligner *)

\* C27: a verb of the vocabulary that is neither an irregular verb nor a
\* prefix followed by one is returned unchanged, in -ed or -ing or not.
C27_KeywordsKept ==
    pc = "done" /\ word_in = Idle =>
        (InVocabulary(verb_in)
            /\ verb_in \notin DOMAIN _to_present_tense_irregulars
            /\ ~PrefixedIrregular(verb_in)
         => verb_out = verb_in)

\* A call on "leaking", a word of the vocabulary, that returns it as it is.
C27_Witness ==
    /\ pc = "done" /\ word_in = Idle
    /\ InVocabulary(verb_in)
    /\ EndsWith(verb_in, "ing") /\ Len(verb_in) = 7
    /\ ~OnlyConsonants(StemOf(verb_in))
    /\ verb_out = verb_in

\* The letters the rule takes for doubled: [b-dghjkmnp-rtv].
DoubledLetters ==
    {"b", "c", "d", "g", "h", "j", "k", "m", "n", "p", "q", "r", "t", "v"}

\* The stem ends in one of these letters, twice.
EndsDoubled(st) ==
    \E c \in DoubledLetters : EndsWith(st, c \o c)

\* The verbs listed as keeping their double letter.
RetainedDoubles ==
    {"ebb", "add", "superadd", "odd", "redd", "egg", "inn", "err", "shirr",
     "burr", "deburr", "flurr", "skirr", "purr", "putt", "vaxx"}

\* The -ing words listed as no verbs.
NonVerbs == ing_non_verbs

\* C28: a verb in -ed or -ing that no table settles, whose stem is not made
\* of consonants alone and ends in a doubled letter, is returned as its stem
\* less one of the two letters, or as its stem when the stem is listed.
C28_DoubledLetters ==
    pc = "done" /\ word_in = Idle =>
        (RegularEnding(verb_in) /\ verb_in \notin NonVerbs
            /\ ~OnlyConsonants(StemOf(verb_in))
            /\ EndsDoubled(StemOf(verb_in))
         => verb_out = IF StemOf(verb_in) \in RetainedDoubles
                       THEN StemOf(verb_in)
                       ELSE DropLast(StemOf(verb_in), 1))

\* A call on a verb whose stem is listed as keeping its double letter.
C28_Witness ==
    /\ pc = "done" /\ word_in = Idle
    /\ RegularEnding(verb_in)
    /\ EndsDoubled(StemOf(verb_in))
    /\ StemOf(verb_in) \in RetainedDoubles
    /\ verb_out = StemOf(verb_in)


-----------------------------------------------------------------------------
(* simple_normalise on documents that hold an identifier: the placeholder    *)
(* AssetID through the stages that follow the anonymisation                  *)

\* What stands before the identifier in the document, and what stands after.
Befores == {"", "w/", "check ", "re-", "x-"}
Afters == {"", "-ed", "/s", " ed", "-a", "-ing", " and B2s", "-es", ", pumps"}

\* The documents: an identifier with something before it and after it.
PlaceholderDocuments == {b \o "A1" \o a : b \in Befores, a \in Afters}

\* The corrections tables: none; one with keys that are words, among them the
\* placeholder itself as a key; one with keys that start or end with another
\* character than a word character.
PlaceholderTables ==
    {<<>>,
     <<<<"AssetID", "pump">>, <<"ed", "edited">>, <<"check", "inspecting">>>>,
     <<<<"w/", "with">>, <<"-a", "x">>>>}

InitPlaceholder ==
    /\ pc = simple_normalise[1]
    /\ document \in PlaceholderDocuments
    /\ text = document
    /\ corrections_dict \in PlaceholderTables
    /\ tokens = <<>>
    /\ stages = <<>>
    /\ anonIdle /\ typoIdle /\ batchIdle /\ unitIdle
    /\ fileIdle

SpecPlaceholder == InitPlaceholder /\ [][NextPipeline]_vars

\* The text as the stage received it, once the stage has run.
InputOf(step) ==
    LET k == CHOOSE i \in 1..Len(stages) : stages[i].stage = step
    IN  stages[k].input

\* The placeholders of a text: the places where AssetID stands as a word.
Placeholders(t) == Cardinality(WholeWordPositions(t, "AssetID"))

\* Every key of the table starts and ends with a word character.
KeysAreWords ==
    \A n \in 1..Len(corrections_dict) :
        LET k == corrections_dict[n][1]
        IN  k # "" /\ Ch(k, 1) \in WordChars /\ Ch(k, Len(k)) \in WordChars

\* C24 as stated: the text returned holds as many placeholders as the text
\* the anonymisation left, with any table.
C24_PlaceholdersKept ==
    pc = "done" =>
        Placeholders(text) = Placeholders(InputOf("_remove_extra_spaces"))

\* What holds of C24: with a table whose keys all start and end with a word
\* character, the text returned holds as many placeholders as the text the
\* anonymisation left.
C24_PlaceholdersKeptByWordKeys ==
    pc = "done" /\ KeysAreWords =>
        Placeholders(text) = Placeholders(InputOf("_remove_extra_spaces"))

\* A finished call with a table that has the placeholder among its keys, on
\* a document with two identifiers, whose text the later stages have changed.
C24_Witness ==
    /\ pc = "done" /\ KeysAreWords
    /\ \E n \in 1..Len(corrections_dict) : corrections_dict[n][1] = "AssetID"
    /\ Placeholders(InputOf("_remove_extra_spaces")) = 2
    /\ Placeholders(text) = 2
    /\ text # InputOf("_remove_extra_spaces")


-----------------------------------------------------------------------------
(* What the claim about the two token stages speaks of *)

\* The places of a stage among the stages run.
RunsOf(step) == {i \in 1..Len(stages) : stages[i].stage = step}

\* The tokens as word_tokenize made them.
Tokenised == word_tokenize(InputOf("word_tokenize"))

\* The token is a plural of a form in -ing or -ed that no table settles (a
\* word of more than three letters: "eds" itself is no plural).
PluralOfVerbForm(t) ==
    /\ EndsWith(t, "ings") \/ EndsWith(t, "eds")
    /\ Len(t) > 3
    /\ t \notin DOMAIN _singularise_irregulars
    /\ t \notin DOMAIN _to_present_tense_irregulars
    /\ ~PrefixedIrregular(t)
    /\ ~InVocabulary(t)

\* C25: the tense aligner has run once, the singulariser once and after it,
\* every token returned is the singular of the present tense of the token
\* made by word_tokenize, and a plural in -ings or -eds has lost its s alone.
C25_TenseThenSingularOnce ==
    pc = "done" =>
        /\ Cardinality(RunsOf("_to_present_tense")) = 1
        /\ Cardinality(RunsOf("_singularise")) = 1
        /\ \A i \in RunsOf("_to_present_tense") : \A j \in RunsOf("_singularise") : i < j
        /\ Len(tokens) = Len(Tokenised)
        /\ \A k \in 1..Len(tokens) :
            /\ tokens[k] = _singularise(
                    _to_present_tense(Tokenised[k], corrections_dict), corrections_dict)
            /\ PluralOfVerbForm(Tokenised[k]) => tokens[k] \o "s" = Tokenised[k]

\* A finished call on a document with a plural in -ings, returned in -ing.
C25_Witness ==
    /\ pc = "done"
    /\ \E k \in 1..Len(tokens) :
        /\ PluralOfVerbForm(Tokenised[k])
        /\ EndsWith(tokens[k], "ing")


-----------------------------------------------------------------------------
(* The two detectors on one sentence: get_anonymised_terms, as normalise_csv *)
(* calls it on a row, and then _anonymise_sentence                           *)

\* The sentences: the short ones, and the texts of the rows.
DetectorSentences ==
    Sentences \cup RowTexts \cup {"pump ab12", "AB12 ok", "12AB", "Z12a"}

InitDetect ==
    /\ pc = "get_anonymised_terms"
    /\ sentence \in DetectorSentences
    /\ anonymised_sentence = Idle
    /\ anonymised_terms = {}
    /\ df = Idle /\ row = Idle /\ terms_left = Idle /\ anonymised_terms_map = Idle
    /\ corrections_dict = Idle
    /\ typoIdle /\ pipeIdle /\ unitIdle
    /\ fileIdle

GetAnonymisedTerms ==
    /\ pc = "get_anonymised_terms"
    /\ anonymised_terms' = get_anonymised_terms(sentence)
    /\ pc' = "_anonymise_sentence"
    /\ UNCHANGED <<df, row, terms_left, anonymised_terms_map>>
    /\ UNCHANGED <<corrections_dict, anonVars, typoVars, pipeVars, unitVars, fileVars>>

NextDetect == GetAnonymisedTerms \/ AnonymiseSentence

SpecDetect == InitDetect /\ [][NextDetect]_vars

\* C23 as stated: the terms collected from a sentence are the words of the
\* sentence that _anonymise_sentence replaces.
C23_SameTokens ==
    pc = "done" =>
        anonymised_terms = ReplacedWords(sentence, anonymised_sentence)


-----------------------------------------------------------------------------
(* What the claim about the labels of different keys speaks of *)

\* C30: while the map is built and after, two detected terms that are not
\* identical after removing spaces and hyphens have different labels, in
\* whatever order the terms are visited.
C30_LabelsInjectiveOnKeys ==
    pc \in {"map", "mapped"} =>
        \A t1, t2 \in anonymised_terms \cap DOMAIN anonymised_terms_map :
            StripSpacesAndHyphens(t1) # StripSpacesAndHyphens(t2)
                => anonymised_terms_map[t1] # anonymised_terms_map[t2]

\* A built map with two keys, one of them under two surface forms.
C30_Witness ==
    /\ pc = "mapped"
    /\ \E t1, t2, t3 \in anonymised_terms :
        /\ t1 # t2
        /\ StripSpacesAndHyphens(t1) = StripSpacesAndHyphens(t2)
        /\ StripSpacesAndHyphens(t3) # StripSpacesAndHyphens(t1)
        /\ anonymised_terms_map[t3] # anonymised_terms_map[t1]

-----------------------------------------------------------------------------
(* process_column: one column of the DataFrame rewritten by a handler *)

\* The most rows of a processed column.
MaxColumnRows == 3

\* The values a cell of the column holds: functional locations and a number,
\* all of them strings, as normalise_csv reads every column as text.
ColumnValues == {"A-1", "A.2", "B-1", "7"}

\* The handlers process_column knows, and one it does not.
Handlers == {"FLOC", "RandomiseInteger", "ToUniqueString", "None", "Other"}

\* The integers random.sample draws from: range(1000000, 9999999), cut down
\* to one more than the rows of the largest column.
RandomIntegers == 1000000..(1000000 + MaxColumnRows)

\* random.sample(population, n): every sequence of n different members.
random_sample(population, n) ==
    {r \in [1..n -> population] : \A i, j \in 1..n : i # j => r[i] # r[j]}

\* re.split("-|\.", val): the value cut at each hyphen and each full stop,
\* empty components kept.
floc_components(val) ==
    LET comps[p \in 1..(Len(val) + 1)] ==
            LET e == SkipUntil(val, p, {"-", "."})
            IN  IF e > Len(val) THEN <<SubSeq(val, p, Len(val))>>
                ELSE <<SubSeq(val, p, e - 1)>> \o comps[e + 1]
    IN  comps[1]

\* The members of a sequence in the order they are first met, each once.
first_seen(vals) ==
    LET seen[i \in 0..Len(vals)] ==
            IF i = 0 THEN <<>>
            ELSE IF \E j \in 1..Len(seen[i - 1]) : seen[i - 1][j] = vals[i]
                 THEN seen[i - 1] ELSE Append(seen[i - 1], vals[i])
    IN  seen[Len(vals)]

\* The place of a member in a sequence that holds it once.
place_of(vals, v) == CHOOSE j \in 1..Len(vals) : vals[j] = v

\* floc_map[level][c]: the components of a level are numbered from 1 in the
\* order the column first shows them.
floc_map(col, level, c) ==
    LET at_level[i \in 0..Len(col)] ==
            IF i = 0 THEN <<>>
            ELSE LET comps == floc_components(col[i])
                 IN  IF level <= Len(comps) THEN Append(at_level[i - 1], comps[level])
                     ELSE at_level[i - 1]
    IN  ToString(place_of(first_seen(at_level[Len(col)]), c))

\* "_".join of the numbers of the components of a value.
floc_out(col, val) ==
    LET comps == floc_components(val)
        out[j \in 1..Len(comps)] ==
            IF j = 1 THEN floc_map(col, 1, comps[1])
            ELSE out[j - 1] \o "_" \o floc_map(col, j, comps[j])
    IN  out[Len(comps)]

\* string_map[val]: the values are numbered from 1 in the order the column
\* first shows them, behind the prefix.
string_map(col, pre, val) == pre \o ToString(place_of(first_seen(col), val))

\* process_column is called with a column that has not been touched and an
\* empty mapping.
InitColumn ==
    /\ pc = "process_column"
    /\ handler \in Handlers
    /\ column \in SeqsUpTo(ColumnValues, MaxColumnRows) \ {<<>>}
    /\ column_prefix \in {"", "ID_"}
    /\ df = column
    /\ row = 1
    /\ rs = <<>>
    /\ mappings = <<>>
    /\ anonymised_terms = Idle /\ terms_left = Idle /\ anonymised_terms_map = Idle
    /\ corrections_dict = Idle
    /\ anonIdle /\ typoIdle /\ pipeIdle /\ unitIdle /\ csvIdle

\* The mapping with one more entry, a later entry of a key replacing the
\* earlier.
mappings_with(map, key, val) ==
    [k \in DOMAIN map \cup {key} |-> IF k = key THEN val ELSE map[k]]

\* What a handler writes into a cell, given the column as it was passed.
cell_out(i) ==
    CASE handler = "FLOC" -> floc_out(column, column[i])
      [] handler = "RandomiseInteger" -> rs[i]
      [] handler = "ToUniqueString" -> string_map(column, column_prefix, column[i])
      [] OTHER -> column[i]

\* The branch of the handler is entered; RandomiseInteger draws its integers.
EnterHandler ==
    /\ pc = "process_column"
    /\ rs' \in IF handler = "RandomiseInteger"
               THEN random_sample(RandomIntegers, Len(column)) ELSE {<<>>}
    /\ pc' = IF handler = "Other" THEN "return" ELSE "rows"
    /\ UNCHANGED <<handler, column, column_prefix, mappings, df, row>>
    /\ UNCHANGED <<anonymised_terms, terms_left, anonymised_terms_map, corrections_dict>>
    /\ UNCHANGED <<anonVars, typoVars, pipeVars, unitVars, csvVars>>

\* One turn of the loop over the rows: the mapping gets the entry of the
\* row's value, and every handler but "None" writes the cell.
ProcessRow ==
    /\ pc = "rows"
    /\ row <= Len(df)
    /\ mappings' = mappings_with(mappings, df[row], cell_out(row))
    /\ df' = IF handler = "None" THEN df ELSE [df EXCEPT ![row] = cell_out(row)]
    /\ row' = row + 1
    /\ UNCHANGED <<pc, handler, column, column_prefix, rs>>
    /\ UNCHANGED <<anonymised_terms, terms_left, anonymised_terms_map, corrections_dict>>
    /\ UNCHANGED <<anonVars, typoVars, pipeVars, unitVars, csvVars>>

\* The loop is over.
RowsDone ==
    /\ pc = "rows"
    /\ row > Len(df)
    /\ pc' = "return"
    /\ UNCHANGED <<handler, column, column_prefix, rs, mappings, df, row>>
    /\ UNCHANGED <<anonymised_terms, terms_left, anonymised_terms_map, corrections_dict>>
    /\ UNCHANGED <<anonVars, typoVars, pipeVars, unitVars, csvVars>>

\* process_column returns the DataFrame and the mapping.
ReturnColumn ==
    /\ pc = "return"
    /\ pc' = "returned"
    /\ UNCHANGED <<handler, column, column_prefix, rs, mappings, df, row>>
    /\ UNCHANGED <<anonymised_terms, terms_left, anonymised_terms_map, corrections_dict>>
    /\ UNCHANGED <<anonVars, typoVars, pipeVars, unitVars, csvVars>>

NextColumn == EnterHandler \/ ProcessRow \/ RowsDone \/ ReturnColumn

SpecColumn == InitColumn /\ [][NextColumn]_vars

-----------------------------------------------------------------------------
(* What the claim about the returned mapping speaks of *)

\* The mapping sends the value row i had to the value row i has.
RowAgrees(i) ==
    /\ column[i] \in DOMAIN mappings
    /\ mappings[column[i]] = df[i]

\* C29 as stated: when process_column has returned under one of its four
\* handlers, the mapping sends every row's original value to the value the
\* row holds in the returned DataFrame.
C29_MappingAgreesWithData ==
    (pc = "returned" /\ handler \in {"FLOC", "RandomiseInteger", "ToUniqueString", "None"})
        => \A i \in 1..Len(column) : RowAgrees(i)

\* What holds of C29: under FLOC, ToUniqueString and None the mapping agrees
\* with every row, and under RandomiseInteger with every row whose value no
\* later row shares.
C29_MappingAgreesWithLastRows ==
    pc = "returned" =>
        \A i \in 1..Len(column) :
            (handler \in {"FLOC", "ToUniqueString", "None"}
                \/ (handler = "RandomiseInteger"
                    /\ \A j \in (i + 1)..Len(column) : column[j] # column[i]))
                => RowAgrees(i)

-----------------------------------------------------------------------------
(* normalise_csv: the whole command, from its arguments to its files *)

\* The most rows of an input file.
MaxCsvRows == 2

\* The columns of the input file; "cost" is a column it does not have.
CsvColumns == {"id", "text"}

\* The texts of the text column: one, two and three words, one an identifier.
CsvTexts == {"a", "a b", "A1 b c"}

\* The corrections table a corrections file that is found holds.
CsvCorrections == <<<<"a", "c">>>>

\* The arguments of a call with what they find on disk. A number that is 0
\* stands for an argument left out: the code tests both as false. The
\* identifier columns vary under the quickgraph format and the column
\* configuration under the csv format, where each is read.
CsvOptions ==
    {o \in [input : SeqsUpTo(CsvTexts, MaxCsvRows),
            output_format : {"csv", "quickgraph", "xml"},
            quickgraph_id_columns : {<<>>, <<"id">>, <<"cost">>},
            column_config : {<<>>, <<"id">>, <<"cost">>},
            drop_duplicates : {"true", "false"},
            max_words : {0, 2},
            max_rows : {0, 1, MaxCsvRows + 1},
            corrections_path : {"corrections.csv", "missing.csv"},
            anonymise_text : BOOLEAN,
            output_path : {"", "out"}] :
        /\ o.output_format # "quickgraph" => o.quickgraph_id_columns = <<>>
        /\ o.output_format # "csv" => o.column_config = <<>>}

\* The steps with the corrections table loaded after the identifiers are
\* collected and dumped.
normalise_csv_corrections_late ==
    <<"output_format", "load_column_config", "load_csv_file",
      "validate_quickgraph_id_columns", "drop_unwanted_columns", "drop_duplicates",
      "drop_long_rows", "sample", "anonymise", "load_corrections_dict",
      "simple_normalise", "process_column", "save">>

\* The steps of the body in the order it lists them.
normalise_csv ==
    <<"output_format", "load_column_config", "load_csv_file",
      "validate_quickgraph_id_columns", "drop_unwanted_columns", "drop_duplicates",
      "drop_long_rows", "sample", "load_corrections_dict", "anonymise",
      "simple_normalise", "process_column", "save">>

\* The step that follows a step of normalise_csv, "done" after the last.
AfterStep(step) ==
    LET k == CHOOSE i \in 1..Len(normalise_csv) : normalise_csv[i] = step
    IN  IF k = Len(normalise_csv) THEN "done" ELSE normalise_csv[k + 1]

\* df.drop_duplicates(subset=text_column, keep="first")
drop_duplicates(rows) == first_seen(rows)

\* drop_long_rows: the rows whose text has fewer than max_words words.
drop_long_rows(rows, max_words) ==
    SelectSeq(rows, LAMBDA x : Len(split(x)) < max_words)

\* df.sample(n): n rows drawn without replacement, in the order drawn.
sample(rows, n) ==
    {[i \in 1..n |-> rows[r[i]]] : r \in random_sample(1..Len(rows), n)}

\* simple_normalise on the text of one row: the twelve steps in turn.
normalise_row(t, dict) ==
    LET cleaned == _remove_extra_spaces(_anonymise_sentence(
                       _add_space_around_punctuation(_remove_duplicate_contiguous_chars(
                           _remove_undesirable_chars(_remove_commas(Lower(t)))))))
        toks == word_tokenize(_correct_typos(cleaned, dict))
    IN  join([i \in 1..Len(toks) |->
                _singularise(_to_present_tense(toks[i], dict), dict)])

\* The identifiers of all rows.
terms_of(rows) == UNION {get_anonymised_terms(rows[i]) : i \in 1..Len(rows)}

InitCsv ==
    /\ pc = normalise_csv[1]
    /\ options \in CsvOptions
    /\ files = {}
    /\ raised = "none"
    /\ df = <<>>
    /\ anonymised_terms = {}
    /\ corrections_dict = <<>>
    /\ row = Idle /\ terms_left = Idle /\ anonymised_terms_map = Idle
    /\ anonIdle /\ typoIdle /\ pipeIdle /\ unitIdle /\ columnIdle

\* A step of the body that ends well, or raises when its test fails.
Step(step, fails, error) ==
    /\ pc = step
    /\ pc' = IF fails THEN "raised" ELSE AfterStep(step)
    /\ raised' = IF fails THEN error ELSE raised
    /\ UNCHANGED <<options, row, terms_left, anonymised_terms_map>>
    /\ UNCHANGED <<anonVars, typoVars, pipeVars, unitVars, columnVars>>

\* if output_format not in ["csv", "quickgraph"]: raise ValueError
ValidateOutputFormat ==
    /\ Step("output_format", options.output_format \notin {"csv", "quickgraph"},
            "ValueError: output format")
    /\ UNCHANGED <<df, files, anonymised_terms, corrections_dict>>

\* column_config = load_column_config(column_config_path)
LoadColumnConfig ==
    /\ Step("load_column_config", FALSE, "none")
    /\ UNCHANGED <<df, files, anonymised_terms, corrections_dict>>

\* df = load_csv_file(input_path)
LoadCsvFile ==
    /\ Step("load_csv_file", FALSE, "none")
    /\ df' = options.input
    /\ UNCHANGED <<files, anonymised_terms, corrections_dict>>

\* validate_quickgraph_id_columns under the quickgraph format
ValidateQuickgraphIdColumns ==
    /\ Step("validate_quickgraph_id_columns",
            /\ options.output_format = "quickgraph"
            /\ \E i \in 1..Len(options.quickgraph_id_columns) :
                    options.quickgraph_id_columns[i] \notin CsvColumns,
            "ValueError: id column")
    /\ UNCHANGED <<df, files, anonymised_terms, corrections_dict>>

\* drop_unwanted_columns under the csv format with a column configuration
DropUnwantedColumns ==
    /\ Step("drop_unwanted_columns",
            /\ options.column_config # <<>>
            /\ options.output_format = "csv"
            /\ \E i \in 1..Len(options.column_config) :
                    options.column_config[i] \notin CsvColumns,
            "ValueError: keep column")
    /\ UNCHANGED <<df, files, anonymised_terms, corrections_dict>>

\* if drop_duplicates in ["true", "True", "yes", "Yes"]
DropDuplicates ==
    /\ Step("drop_duplicates", FALSE, "none")
    /\ df' = IF options.drop_duplicates \in {"true", "True", "yes", "Yes"}
             THEN drop_duplicates(df) ELSE df
    /\ UNCHANGED <<files, anonymised_terms, corrections_dict>>

\* if max_words: df = drop_long_rows(df, text_column, max_words)
DropLongRows ==
    /\ Step("drop_long_rows", FALSE, "none")
    /\ df' = IF options.max_words # 0 THEN drop_long_rows(df, options.max_words) ELSE df
    /\ UNCHANGED <<files, anonymised_terms, corrections_dict>>

\* if max_rows: df = df.sample(n=max_rows), a ValueError when n is larger
\* than the rows left.
Sample ==
    /\ Step("sample", options.max_rows > Len(df), "ValueError: sample")
    /\ df' \in IF options.max_rows = 0 \/ options.max_rows > Len(df) THEN {df}
               ELSE sample(df, options.max_rows)
    /\ UNCHANGED <<files, anonymised_terms, corrections_dict>>

\* corrections_dict = load_corrections_dict(corrections_path)
LoadCorrectionsDict ==
    /\ Step("load_corrections_dict", options.corrections_path = "missing.csv",
            "FileNotFoundError: corrections")
    /\ corrections_dict' = IF options.corrections_path = "missing.csv"
                           THEN corrections_dict ELSE CsvCorrections
    /\ UNCHANGED <<df, files, anonymised_terms>>

\* if anonymise_text: the identifiers are collected and, if there are any,
\* dumped (the dump path is given).
Anonymise ==
    /\ Step("anonymise", FALSE, "none")
    /\ anonymised_terms' = IF options.anonymise_text THEN terms_of(df) ELSE {}
    /\ files' = IF options.anonymise_text /\ terms_of(df) # {}
                THEN files \cup {"dump_anonymised_terms_path"} ELSE files
    /\ UNCHANGED <<df, corrections_dict>>

\* the loop over the rows: each text is normalised
NormaliseRows ==
    /\ Step("simple_normalise", FALSE, "none")
    /\ df' = [i \in 1..Len(df) |-> normalise_row(df[i], corrections_dict)]
    /\ UNCHANGED <<files, anonymised_terms, corrections_dict>>

\* the configured columns are processed and their mappings dumped (the
\* configuration gives a path)
ProcessColumns ==
    /\ Step("process_column", FALSE, "none")
    /\ files' = IF options.column_config # <<>> /\ options.output_format = "csv"
                THEN files \cup {"column_config.output_path"} ELSE files
    /\ UNCHANGED <<df, anonymised_terms, corrections_dict>>

\* df.to_csv or save_to_quickgraph_json, if an output path is given
Save ==
    /\ Step("save", FALSE, "none")
    /\ files' = IF options.output_path # "" THEN files \cup {"output_path"} ELSE files
    /\ UNCHANGED <<df, anonymised_terms, corrections_dict>>

NextCsv ==
    \/ ValidateOutputFormat \/ LoadColumnConfig \/ LoadCsvFile
    \/ ValidateQuickgraphIdColumns \/ DropUnwantedColumns \/ DropDuplicates
    \/ DropLongRows \/ Sample \/ LoadCorrectionsDict \/ Anonymise
    \/ NormaliseRows \/ ProcessColumns \/ Save

SpecCsv == InitCsv /\ [][NextCsv]_vars

-----------------------------------------------------------------------------
(* What the claims about the errors and the long rows speak of *)

\* The arguments hold one of the five errors: a format that is neither csv
\* nor quickgraph, an identifier column or a kept column the input does not
\* have, a corrections file that is missing, more rows asked for than the
\* input has.
HasConfigurationError ==
    \/ options.output_format \notin {"csv", "quickgraph"}
    \/ /\ options.output_format = "quickgraph"
       /\ \E i \in 1..Len(options.quickgraph_id_columns) :
            options.quickgraph_id_columns[i] \notin {"id", "text"}
    \/ /\ options.output_format = "csv"
       /\ \E i \in 1..Len(options.column_config) :
            options.column_config[i] \notin {"id", "text"}
    \/ options.corrections_path = "missing.csv"
    \/ options.max_rows > Len(options.input)

\* C21: a call whose arguments hold one of the five errors never writes a
\* file and never completes, and whenever an error has been raised no file
\* has been written.
C21_ErrorsBeforeAnyOutput ==
    (HasConfigurationError \/ raised # "none") => (files = {} /\ pc # "done")

\* The corrections file is missing in a call that would dump identifiers and
\* save its output; the error is raised.
C21_Witness ==
    /\ pc = "raised"
    /\ raised = "FileNotFoundError: corrections"
    /\ options.anonymise_text /\ terms_of(df) # {}
    /\ options.output_path # ""
    /\ files = {}

\* The number of whitespace-separated words of a text.
WordCount(t) == Len(split(t))

\* C22 as stated: when max_words is given, the step that drops the long rows
\* leaves the rows of at most max_words words, in their order.
C22_DropsRowsOverMaxWords ==
    [][(pc = "drop_long_rows" /\ options.max_words # 0)
          => df' = SelectSeq(df, LAMBDA x : WordCount(x) <= options.max_words)]_vars

=============================================================================
